---- MODULE Spec2Model ----
(***************************************************************************)
(* Telemetry ingestion and session state engine of climbing-companion:     *)
(* the document store collections, the device/pairing registry routes,     *)
(* the MQTT message handlers and the Telegram status-check protocol.       *)
(***************************************************************************)
EXTENDS Integers, Sequences, FiniteSets, Bags, TLC

(* ------------------------------ universe ------------------------------ *)

Users == {"u1", "u2"}
Serials == {"d1", "d2"}
SessionIds == {"s1", "s2"}
ChatIds == {"c1", "c2"}
\* A chat that belongs to no emergency contact.
UnknownChat == "c9"

\* Python None / a missing dictionary key.
Absent == "absent"

\* JSON values of the numeric payload fields: null or missing, a number, or
\* a value of another type that no float field takes.
JNone == [kind |-> "none", value |-> 0]
JNum(n) == [kind |-> "number", value |-> n]
JBad == [kind |-> "invalid", value |-> 0]

\* Bounds of the model.
MaxAlt == 1
MaxHttp == 4
MaxMsgs == 2
MaxRequests == 1
MaxLife == 3
MaxLoops == 3
MaxCalls == 3
MaxUpdates == 1
MaxRepeats == 2

Alts == {JNum(n) : n \in 0..MaxAlt} \cup {JNone, JBad}

\* The largest latitude the climbing_session schema accepts; the sample
\* latitudes are that one and the first one outside the range.
LatitudeMax == 90
Latitudes == {JNone, JNum(LatitudeMax), JNum(LatitudeMax + 1)}

SessionStates == {"START", "ACTIVE", "END", "INCIDENT"}
\* A state label the engine does not know.
UnknownState == "PAUSED"

\* Decoded telemetry payloads; Absent is a missing key. The latitude is
\* validated by the START handler alone, so the other messages carry none.
Payloads ==
    {d \in [session_state : SessionStates \cup {UnknownState, Absent},
            session_id : SessionIds \cup {Absent},
            alt : Alts,
            latitude : Latitudes] :
        d.session_state # "START" => d.latitude = JNone}

\* The outcomes of the sendMessage calls of one dispatch: the chats whose
\* call fails. Only an INCIDENT message reaches the dispatcher.
SendOutcomes(data) ==
    IF data.session_state = "INCIDENT" THEN SUBSET ChatIds ELSE {{}}

VARIABLES
    device_collection,          \* serial -> data.status, Absent when no record
    last_sync_at,               \* serial -> data.last_sync_at on the message
                                \* clock, 0 when not set during the run
    device_pairing_collection,  \* sequence of pairing records, insertion order
    climbing_session_collection,\* sequence of [profile, data] session records
    session_event_collection,   \* sequence of session_event data records
    emergency_contact_collection,\* sequence of emergency contact records
    pending_status_checks,      \* TelegramService.pending_status_checks
    connected,                  \* MQTTService.connected
    poller,                     \* the polling thread inside _handle_check_status
    watchers,                   \* the timeout threads, by request number
    mqtt_thread,                \* the paho thread inside send_status_response
    sent,                       \* bag of messages handed to _send_telegram_message
    published,                  \* status requests published to devices
    alerts,                     \* results of send_emergency_alert
    http_response,              \* last response of the device routes
    last_msg,                   \* last inbound transport message
    polling_active,             \* TelegramService.polling_active
    polling_loops,              \* the threads started on _polling_loop
    dr_call,                    \* last call of DRFactory and its outcome
    dr_objects                  \* the record objects of the last DRFactory
                                \* call on whole sections, and the clock

vars == << device_collection, last_sync_at, device_pairing_collection,
           climbing_session_collection, session_event_collection,
           emergency_contact_collection, pending_status_checks, connected,
           poller, watchers, mqtt_thread, sent, published, alerts,
           http_response, last_msg, polling_active, polling_loops, dr_call,
           dr_objects >>

storeVars == << device_collection, last_sync_at, device_pairing_collection,
                climbing_session_collection, session_event_collection,
                emergency_contact_collection >>

sessionVars == << climbing_session_collection, session_event_collection >>

chatVars == << pending_status_checks, poller, watchers, mqtt_thread, sent,
               published >>

transportVars == << connected >>

pollingVars == << polling_active, polling_loops >>

factoryVars == << dr_call, dr_objects >>

(* --------------------------- store primitives -------------------------- *)

\* collection.find_one(query), given the indices of the records that match
\* the query: the first of them in the collection's order, 0 when none.
FindOne(matches) ==
    IF matches = {} THEN 0
    ELSE CHOOSE i \in matches : \A j \in matches : i <= j

\* dict.get(key) on a section of a record.
Get(section, key) == IF key \in DOMAIN section THEN section[key] ELSE Absent

\* Section-wise merge of partial fields: the named keys take the new values.
Merge(section, updates) == updates @@ section

\* The idle threads and the empty message slot.
\* asked, since and woke are the numbers of status replies the chat had been
\* sent when the request was published, when it was registered and when its
\* timeout thread woke up.
NoPoller == [pc |-> "idle", n |-> 0, chat_id |-> Absent, user_id |-> Absent,
             asked |-> 0]
NoWatcher == [pc |-> "none", chat_id |-> Absent, user_id |-> Absent,
              asked |-> 0, since |-> 0, woke |-> 0]
NoResponse == [pc |-> "idle", chat_id |-> Absent, keys |-> {}]
NoPayload == [session_state |-> Absent, session_id |-> Absent,
              alt |-> JNone, latitude |-> JNone]
NoMsg == [n |-> 0, class |-> Absent, serial |-> Absent, payload |-> NoPayload]
\* A value handed to the factory for a field: a string, a number, null, or
\* no value when the key is left out.
Str(s) == [kind |-> "str", value |-> s]
Number == [kind |-> "number", value |-> "5"]
Null == [kind |-> "null", value |-> ""]
Unset == [kind |-> "unset", value |-> ""]
\* A climbing_session record as a Python object: the profile and data
\* dictionaries by value, the metadata dictionary by reference into the
\* heap of dr_objects (0: no record).
NoProfile == [session_state |-> Unset]
NoSection == [user_id |-> Unset, end_alt |-> Unset, note |-> Unset]
NoMetadata == [created_at |-> 0, updated_at |-> 0, note |-> Unset]
NoRecord == [profile |-> NoProfile, data |-> NoSection, metadata |-> 0]
NoSections == [given |-> {}, profile |-> NoProfile, data |-> NoSection,
               metadata |-> [note |-> Unset]]
NoSnapshot == [profile |-> NoProfile, data |-> NoSection,
               metadata |-> NoMetadata]
NoObjects == [n |-> 0, op |-> Absent, result |-> Absent, utcnow |-> 0,
              heap |-> << >>, dr |-> NoRecord, before |-> NoSnapshot,
              updates |-> NoSections, updated_dr |-> NoRecord]
NoCall == [n |-> 0, op |-> Absent, dr_type |-> Absent, value |-> Unset,
           result |-> Absent, returned |-> Unset, stored |-> Unset]

(* ------------------------------ registry ------------------------------- *)

ActivePairingOf(serial, user) ==
    FindOne({i \in 1..Len(device_pairing_collection) :
                /\ device_pairing_collection[i].device_serial = serial
                /\ device_pairing_collection[i].user_id = user
                /\ device_pairing_collection[i].pairing_status = "active"})

UnpairedPairingOf(serial, user) ==
    FindOne({i \in 1..Len(device_pairing_collection) :
                /\ device_pairing_collection[i].device_serial = serial
                /\ device_pairing_collection[i].user_id = user
                /\ device_pairing_collection[i].pairing_status = "unpaired"})

ActivePairingOfSerial(serial) ==
    FindOne({i \in 1..Len(device_pairing_collection) :
                /\ device_pairing_collection[i].device_serial = serial
                /\ device_pairing_collection[i].pairing_status = "active"})

\* A re-registration that inserts a fresh active record.
ReactivateByInsert(coll, idx) ==
    Append(coll, [coll[idx] EXCEPT !.pairing_status = "active"])

\* update_one({"_id": unpaired_pairing["_id"]}, {"$set": {pairing_status: active}})
Reactivate(coll, idx) == [coll EXCEPT ![idx].pairing_status = "active"]

NewPairing(serial, user) ==
    [device_serial |-> serial, user_id |-> user, pairing_status |-> "active"]

Respond(op, user, serial, result) ==
    http_response' = [n |-> http_response.n + 1, op |-> op, user_id |-> user,
                      serial |-> serial, result |-> result]

\* POST /register-device by a logged-in user.
register_device(user, serial) ==
    /\ http_response.n < MaxHttp
    /\ LET exists == device_collection[serial] # Absent
           active == ActivePairingOf(serial, user)
           unpaired == UnpairedPairingOf(serial, user)
           other == ActivePairingOfSerial(serial)
       IN  IF exists /\ active # 0
           THEN /\ Respond("register", user, serial, "already_registered")
                /\ UNCHANGED << device_collection, device_pairing_collection >>
           ELSE IF exists /\ unpaired # 0
           THEN /\ device_pairing_collection' =
                      Reactivate(device_pairing_collection, unpaired)
                /\ Respond("register", user, serial, "re_registered")
                /\ UNCHANGED device_collection
           ELSE IF exists /\ other # 0
           THEN /\ Respond("register", user, serial, "other_user")
                /\ UNCHANGED << device_collection, device_pairing_collection >>
           ELSE /\ device_collection' =
                      IF exists THEN device_collection
                      ELSE [device_collection EXCEPT ![serial] = "inactive"]
                /\ device_pairing_collection' =
                      Append(device_pairing_collection, NewPairing(serial, user))
                /\ Respond("register", user, serial, "registered")
    /\ UNCHANGED << last_sync_at, sessionVars, emergency_contact_collection,
                    chatVars, transportVars, pollingVars, factoryVars, alerts, last_msg >>

\* POST /unregister-device/<device_serial> by a logged-in user.
unregister_device(user, serial) ==
    /\ http_response.n < MaxHttp
    /\ LET pairing == ActivePairingOf(serial, user)
       IN  IF pairing = 0
           THEN /\ Respond("unregister", user, serial, "not_found")
                /\ UNCHANGED device_pairing_collection
           ELSE /\ device_pairing_collection' =
                      [device_pairing_collection EXCEPT
                          ![pairing].pairing_status = "unpaired"]
                /\ Respond("unregister", user, serial, "unregistered")
    /\ UNCHANGED << device_collection, last_sync_at, sessionVars,
                    emergency_contact_collection, chatVars, transportVars, pollingVars, factoryVars,
                    alerts, last_msg >>

(* ------------------------------ telemetry ------------------------------ *)

\* MQTTService._find_device_by_serial: the device record exists.
DeviceExists(serial) == device_collection[serial] # Absent

\* MQTTService._get_user_from_device: the user of the first active pairing
\* of the serial, Absent when there is none.
UserFromDevice(serial) ==
    LET i == ActivePairingOfSerial(serial)
    IN  IF i = 0 THEN Absent ELSE device_pairing_collection[i].user_id

\* find_one({"data.session_id": session_id}) on a session collection.
SessionIndex(coll, session_id) ==
    FindOne({i \in 1..Len(coll) :
                Get(coll[i].data, "session_id") = session_id})

\* MQTTService._find_session_by_id: first session with data.session_id.
FindSessionById(session_id) ==
    SessionIndex(climbing_session_collection, session_id)

\* A field declared float takes a number and nothing else for a key that is
\* given: the handlers pass data.get(...) for every key, so a value the
\* message lacks reaches the generated model as an explicit None.
ValidFloat(v) == v.kind = "number"

\* The latitude constraint (min/max) of the climbing_session schema.
ValidLatitude(v) ==
    /\ ValidFloat(v)
    /\ v.value >= -LatitudeMax /\ v.value <= LatitudeMax

\* DRFactory.create_dr("climbing_session", ...) accepts the session data.
ValidSessionData(data) == ValidFloat(data.alt) /\ ValidLatitude(data.latitude)

\* DRFactory.create_dr("session_event", ...) accepts the event data.
ValidEventData(data) == ValidFloat(data.alt)

\* A session that is stored as already ACTIVE.
SessionRecordActive(serial, user, session_id, data) ==
    [profile |-> [session_state |-> "ACTIVE"],
     data |-> [session_id |-> session_id, user_id |-> user,
               device_serial |-> serial, start_alt |-> data.alt]]

\* The climbing_session built by _handle_session_start.
SessionRecord(serial, user, session_id, data) ==
    [profile |-> [session_state |-> "START"],
     data |-> [session_id |-> session_id, user_id |-> user,
               device_serial |-> serial, start_alt |-> data.alt]]

\* The session_event built by every session handler.
EventRecord(serial, session_id, data) ==
    [session_id |-> session_id, device_serial |-> serial, alt |-> data.alt]

\* END updates that record no end altitude.
EndUpdatesStateOnly(data) == [profile |-> [session_state |-> "END"]]

\* session_updates of _handle_session_end.
EndUpdates(data) ==
    [profile |-> [session_state |-> "END"], data |-> [end_alt |-> data.alt]]

\* db_service.update_dr("climbing_session", id, updates) on record i.
UpdateSession(coll, i, updates) ==
    [coll EXCEPT ![i] =
        [profile |-> IF "profile" \in DOMAIN updates
                     THEN Merge(coll[i].profile, updates.profile)
                     ELSE coll[i].profile,
         data |-> IF "data" \in DOMAIN updates
                  THEN Merge(coll[i].data, updates.data)
                  ELSE coll[i].data]]

\* An event insertion that is skipped.
SkipEvent(events, serial, session_id, data) == events

\* A save that writes over the newest event.
SaveEventOverwriting(events, serial, session_id, data) ==
    IF events = << >>
    THEN << EventRecord(serial, session_id, data) >>
    ELSE [events EXCEPT ![Len(events)] =
             EventRecord(serial, session_id, data)]

\* create_dr + save_dr of the message's session_event.
SaveEvent(events, serial, session_id, data) ==
    Append(events, EventRecord(serial, session_id, data))

(* --------------------------- alert dispatcher -------------------------- *)

\* A query that also returns the soft-deleted contacts.
AllContactsOf(user) ==
    SelectSeq(emergency_contact_collection, LAMBDA c : c.user_id = user)

\* TelegramService._get_emergency_contacts: the user's contacts with
\* data.is_active = True, in collection order.
EmergencyContactsOf(user) ==
    SelectSeq(emergency_contact_collection,
              LAMBDA c : c.user_id = user /\ c.is_active)

\* A loop that sends to every contact a second time.
RECURSIVE AlertAttemptsTwice(_)
AlertAttemptsTwice(contacts) ==
    IF contacts = << >> THEN EmptyBag
    ELSE IF Head(contacts).telegram_chat_id = Absent
    THEN AlertAttemptsTwice(Tail(contacts))
    ELSE AlertAttemptsTwice(Tail(contacts))
            (+) SetToBag({[chat_id |-> Head(contacts).telegram_chat_id,
                           kind |-> "alert"]})
            (+) SetToBag({[chat_id |-> Head(contacts).telegram_chat_id,
                           kind |-> "alert"]})

\* The sends of one dispatch: one alert per contact that has a chat id.
RECURSIVE AlertAttempts(_)
AlertAttempts(contacts) ==
    IF contacts = << >> THEN EmptyBag
    ELSE IF Head(contacts).telegram_chat_id = Absent
    THEN AlertAttempts(Tail(contacts))
    ELSE AlertAttempts(Tail(contacts))
            (+) SetToBag({[chat_id |-> Head(contacts).telegram_chat_id,
                           kind |-> "alert"]})

\* sent_count after the loop over the contacts: one more for every send
\* that succeeds.
RECURSIVE SentCount(_, _)
SentCount(contacts, failing) ==
    IF contacts = << >> THEN 0
    ELSE IF Head(contacts).telegram_chat_id = Absent
    THEN SentCount(Tail(contacts), failing)
    ELSE IF Head(contacts).telegram_chat_id \in failing
    THEN SentCount(Tail(contacts), failing)
    ELSE SentCount(Tail(contacts), failing) + 1

\* A loop that does not record the contacts without a chat id as failed.
FailedSendsOnly(contacts, failing) ==
    [i \in 1..Len(SelectSeq(contacts,
              LAMBDA c : c.telegram_chat_id \in failing)) |->
        SelectSeq(contacts,
              LAMBDA c : c.telegram_chat_id \in failing)[i].name]

\* The names appended to failed_contacts, in contact order; failing is the
\* set of chats whose sendMessage call does not succeed.
FailedContacts(contacts, failing) ==
    [i \in 1..Len(SelectSeq(contacts,
              LAMBDA c : c.telegram_chat_id = Absent
                         \/ c.telegram_chat_id \in failing)) |->
        SelectSeq(contacts,
              LAMBDA c : c.telegram_chat_id = Absent
                         \/ c.telegram_chat_id \in failing)[i].name]

\* The result dictionary of TelegramService.send_emergency_alert, next to
\* the user and session it was called for: the report without recipients
\* has no total_contacts, and failed_contacts is only set when a contact
\* failed.
AlertReport(user, session_id, failing) ==
    LET contacts == EmergencyContactsOf(user)
        failed == FailedContacts(contacts, failing)
        sent_count == SentCount(contacts, failing)
        call == [user_id |-> user, session_id |-> session_id]
        result == [status |-> IF sent_count > 0 THEN "success" ELSE "error",
                   sent_count |-> sent_count,
                   total_contacts |-> Len(contacts)]
    IN  IF Len(contacts) = 0
        THEN call @@ [status |-> "warning", sent_count |-> 0]
        ELSE IF failed # << >>
        THEN call @@ result @@ [failed_contacts |-> failed]
        ELSE call @@ result

\* TelegramService.send_emergency_alert, called by the INCIDENT handler.
send_emergency_alert(user, session_id, failing) ==
    /\ alerts' = Append(alerts, AlertReport(user, session_id, failing))
    /\ sent' = sent (+) AlertAttempts(EmergencyContactsOf(user))

(* --------------------------- session handlers -------------------------- *)

\* MQTTService._handle_session_start
handle_session_start(serial, user, session_id, data) ==
    /\ IF ValidSessionData(data)
       THEN /\ climbing_session_collection' =
                  Append(climbing_session_collection,
                         SessionRecord(serial, user, session_id, data))
            /\ session_event_collection' =
                  IF ValidEventData(data)
                  THEN SaveEvent(session_event_collection, serial,
                                 session_id, data)
                  ELSE session_event_collection
       ELSE UNCHANGED sessionVars
    /\ UNCHANGED << alerts, sent >>

\* MQTTService._handle_session_active
handle_session_active(serial, session_id, data) ==
    LET i == FindSessionById(session_id)
    IN  /\ IF i = 0
           THEN UNCHANGED sessionVars
           ELSE /\ climbing_session_collection' =
                      IF climbing_session_collection[i].profile.session_state
                            # "ACTIVE"
                      THEN UpdateSession(climbing_session_collection, i,
                              [profile |-> [session_state |-> "ACTIVE"]])
                      ELSE climbing_session_collection
                /\ session_event_collection' =
                      IF ValidEventData(data)
                      THEN SaveEvent(session_event_collection, serial,
                                     session_id, data)
                      ELSE session_event_collection
        /\ UNCHANGED << alerts, sent >>

\* MQTTService._handle_session_end
handle_session_end(serial, session_id, data) ==
    LET i == FindSessionById(session_id)
    IN  /\ IF i = 0
           THEN UNCHANGED sessionVars
           ELSE /\ climbing_session_collection' =
                      UpdateSession(climbing_session_collection, i,
                                    EndUpdates(data))
                /\ session_event_collection' =
                      IF ValidEventData(data)
                      THEN SaveEvent(session_event_collection, serial,
                                     session_id, data)
                      ELSE session_event_collection
        /\ UNCHANGED << alerts, sent >>

\* MQTTService._handle_session_incident
handle_session_incident(serial, user, session_id, data, failing) ==
    LET i == FindSessionById(session_id)
    IN  IF i = 0
        THEN UNCHANGED << sessionVars, alerts, sent >>
        ELSE /\ climbing_session_collection' =
                   UpdateSession(climbing_session_collection, i,
                       [profile |-> [session_state |-> "INCIDENT"]])
             /\ IF ValidEventData(data)
                THEN /\ session_event_collection' =
                           SaveEvent(session_event_collection, serial,
                                     session_id, data)
                     /\ send_emergency_alert(user, session_id, failing)
                ELSE UNCHANGED << session_event_collection, alerts, sent >>

Receive(class, serial, payload) ==
    last_msg' = [n |-> last_msg.n + 1, class |-> class, serial |-> serial,
                 payload |-> payload]

\* A guard that only drops messages without a state or a session id.
NeverDiscarded(serial, data) ==
    data.session_state = Absent \/ data.session_id = Absent

\* A guard that does not look at the session id.
DiscardedIgnoringId(serial, data) ==
    \/ data.session_state = Absent
    \/ ~DeviceExists(serial)
    \/ UserFromDevice(serial) = Absent

\* The telemetry is dropped before the dispatch on session_state.
Discarded(serial, data) ==
    \/ data.session_state = Absent
    \/ data.session_id = Absent
    \/ ~DeviceExists(serial)
    \/ UserFromDevice(serial) = Absent

\* MQTTService.handle_telemetry, reached from _on_message for a topic
\* climbing/{serial}.
handle_telemetry(serial, data, failing) ==
    /\ mqtt_thread.pc = "idle"
    /\ Receive("telemetry", serial, data)
    /\ LET user == UserFromDevice(serial)
           sid == data.session_id
       IN  IF Discarded(serial, data)
           THEN UNCHANGED << sessionVars, alerts, sent >>
           ELSE IF data.session_state = "START"
           THEN handle_session_start(serial, user, sid, data)
           ELSE IF data.session_state = "ACTIVE"
           THEN handle_session_active(serial, sid, data)
           ELSE IF data.session_state = "END"
           THEN handle_session_end(serial, sid, data)
           ELSE IF data.session_state = "INCIDENT"
           THEN handle_session_incident(serial, user, sid, data, failing)
           ELSE UNCHANGED << sessionVars, alerts, sent >>
    /\ UNCHANGED << device_collection, last_sync_at,
                    device_pairing_collection,
                    emergency_contact_collection, pending_status_checks,
                    transportVars, pollingVars, factoryVars, poller, watchers, mqtt_thread, published,
                    http_response >>

(* ------------------------ status-check protocol ------------------------ *)

\* request_key = f"{chat_id}_{user_id}"
RequestKey(chat, user) == << chat, user >>

\* A delete that leaves the entry in the map.
RemoveNothing(map, keys) == map

\* del self.pending_status_checks[key] for each of the keys.
Remove(map, keys) == [k \in DOMAIN map \ keys |-> map[k]]

\* The number of messages of a kind sent to a chat so far.
Sent(chat, kind) == CopiesIn([chat_id |-> chat, kind |-> kind], sent)

\* One _send_telegram_message(chat, text) call; kind names the text.
Send(chat, kind) == SetToBag({[chat_id |-> chat, kind |-> kind]})

\* A client.publish call on climbing/{serial}/request and its result.
Publish(serial, chat, user, result) ==
    [serial |-> serial, chat_id |-> chat, user_id |-> user, result |-> result]

\* TelegramService._find_emergency_contact_by_chat_id
FindEmergencyContactByChatId(chat) ==
    FindOne({i \in 1..Len(emergency_contact_collection) :
                emergency_contact_collection[i].telegram_chat_id = chat})

\* A user id that no record of user_collection has.
MissingUser == "u9"

\* TelegramService._get_user_info: the record of user_collection with this
\* id; the collection holds the records of Users throughout.
GetUserInfo(user) == IF user \in Users THEN user ELSE Absent

\* A lookup that does not ask for the status of the paired device.
FindUserPairedDevice(user) ==
    LET i == FindOne({j \in 1..Len(device_pairing_collection) :
                  /\ device_pairing_collection[j].user_id = user
                  /\ device_pairing_collection[j].pairing_status = "active"})
    IN  IF i = 0 THEN Absent
        ELSE device_pairing_collection[i].device_serial

\* TelegramService._find_user_active_device: the serial of the device of
\* the user's first active pairing if that device has status active.
FindUserActiveDevice(user) ==
    LET i == FindOne({j \in 1..Len(device_pairing_collection) :
                  /\ device_pairing_collection[j].user_id = user
                  /\ device_pairing_collection[j].pairing_status = "active"})
    IN  IF i = 0 THEN Absent
        ELSE IF device_collection[device_pairing_collection[i].device_serial]
                  = "active"
        THEN device_pairing_collection[i].device_serial
        ELSE Absent

\* The MQTT client library: a publish succeeds, returns an error code or
\* raises.
PublishResults == {"success", "error", "raises"}

\* A request that is taken as sent whatever the client says.
RequestAlwaysSent(result) == TRUE

\* MQTTService.request_device_status returns True; result is what
\* client.publish does if it is called.
RequestSent(result) == connected /\ result = "success"

\* A query that matches any session of the user.
HasAnySession(user) ==
    \E i \in 1..Len(climbing_session_collection) :
        Get(climbing_session_collection[i].data, "user_id") = user

\* TelegramService._has_active_session: a session of the user whose
\* data.session_state is ACTIVE or START.
HasActiveSession(user) ==
    \E i \in 1..Len(climbing_session_collection) :
        /\ Get(climbing_session_collection[i].data, "user_id") = user
        /\ Get(climbing_session_collection[i].data, "session_state")
              \in {"ACTIVE", "START"}

\* TelegramService._handle_check_status up to the return of
\* request_device_status, run by the polling thread for /check_status;
\* limit is the number of commands of the run.
check_status(chat, result, limit) ==
    /\ poller.pc = "idle"
    /\ poller.n < limit
    /\ LET c == FindEmergencyContactByChatId(chat)
           user == emergency_contact_collection[c].user_id
           serial == FindUserActiveDevice(user)
           done == [pc |-> "idle", n |-> poller.n + 1, chat_id |-> Absent,
                    user_id |-> Absent, asked |-> 0]
       IN  IF c = 0
           THEN /\ sent' = sent (+) Send(chat, "not_registered")
                /\ poller' = done
                /\ UNCHANGED published
           ELSE IF user = Absent
           THEN /\ sent' = sent (+) Send(chat, "no_user_id")
                /\ poller' = done
                /\ UNCHANGED published
           ELSE IF GetUserInfo(user) = Absent
           THEN /\ sent' = sent (+) Send(chat, "user_not_found")
                /\ poller' = done
                /\ UNCHANGED published
           ELSE IF serial = Absent
           THEN /\ sent' = sent (+) Send(chat, "no_active_device")
                /\ poller' = done
                /\ UNCHANGED published
           ELSE IF ~RequestSent(result)
           THEN /\ sent' = sent (+) Send(chat, "processing")
                                    (+) Send(chat, "request_failed")
                /\ poller' = done
                /\ published' =
                      IF connected
                      THEN Append(published, Publish(serial, chat, user, result))
                      ELSE published
           ELSE /\ sent' = sent (+) Send(chat, "processing")
                /\ published' =
                      Append(published, Publish(serial, chat, user, result))
                /\ poller' = [pc |-> "register", n |-> poller.n + 1,
                              chat_id |-> chat, user_id |-> user,
                              asked |-> Sent(chat, "status_reply")]
    /\ UNCHANGED << storeVars, pending_status_checks, watchers, mqtt_thread,
                    transportVars, pollingVars, factoryVars, alerts, http_response, last_msg >>

handle_check_status(chat, result) == check_status(chat, result, MaxRequests)

\* _handle_check_status after a successful publish: the pending entry is
\* stored and the timeout thread is started.
register_pending ==
    /\ poller.pc = "register"
    /\ pending_status_checks' =
          (RequestKey(poller.chat_id, poller.user_id) :>
              [chat_id |-> poller.chat_id, user_id |-> poller.user_id,
               timestamp |-> poller.n]) @@ pending_status_checks
    /\ watchers' = (poller.n :> [pc |-> "sleeping", chat_id |-> poller.chat_id,
                                 user_id |-> poller.user_id,
                                 asked |-> poller.asked,
                                 since |-> Sent(poller.chat_id,
                                                "status_reply"),
                                 woke |-> 0]) @@ watchers
    /\ poller' = [poller EXCEPT !.pc = "idle", !.chat_id = Absent,
                                !.user_id = Absent, !.asked = 0]
    /\ UNCHANGED << storeVars, mqtt_thread, sent, published, transportVars, pollingVars, factoryVars,
                    alerts, http_response, last_msg >>

\* _handle_status_check_timeout: the sleep is over and the thread tests
\* whether its request key is still pending.
timeout_check(r) ==
    /\ watchers[r].pc = "sleeping"
    /\ watchers' = [watchers EXCEPT
          ![r].pc = IF RequestKey(watchers[r].chat_id, watchers[r].user_id)
                          \in DOMAIN pending_status_checks
                    THEN "expired" ELSE "silent",
          ![r].woke = Sent(watchers[r].chat_id, "status_reply")]
    /\ UNCHANGED << storeVars, pending_status_checks, poller, mqtt_thread,
                    sent, published, transportVars, pollingVars, factoryVars, alerts, http_response,
                    last_msg >>

\* _handle_status_check_timeout after the test: the entry is deleted (a
\* KeyError ends the thread) and one of the two notifications is sent.
timeout_fire(r) ==
    /\ watchers[r].pc = "expired"
    /\ LET key == RequestKey(watchers[r].chat_id, watchers[r].user_id)
       IN  IF key \notin DOMAIN pending_status_checks
           THEN /\ watchers' = [watchers EXCEPT ![r].pc = "silent"]
                /\ UNCHANGED << pending_status_checks, sent >>
           ELSE /\ pending_status_checks' =
                      Remove(pending_status_checks, {key})
                /\ sent' = sent (+) Send(watchers[r].chat_id,
                      IF HasActiveSession(watchers[r].user_id)
                      THEN "device_unreachable" ELSE "no_active_session")
                /\ watchers' = [watchers EXCEPT ![r].pc = "replied"]
    /\ UNCHANGED << storeVars, poller, mqtt_thread, published, transportVars, pollingVars, factoryVars,
                    alerts, http_response, last_msg >>

\* A response handler that also stamps the answering device's last sync.
handle_telegram_response_stamping(serial, chat) ==
    /\ mqtt_thread.pc = "idle"
    /\ Receive("telegram", serial, [chat_id |-> chat])
    /\ mqtt_thread' =
          IF chat = Absent THEN mqtt_thread
          ELSE [pc |-> "remove", chat_id |-> chat,
                keys |-> {k \in DOMAIN pending_status_checks : k[1] = chat}]
    /\ last_sync_at' = [last_sync_at EXCEPT ![serial] = last_msg.n + 1]
    /\ UNCHANGED << device_collection, device_pairing_collection,
                    sessionVars, emergency_contact_collection,
                    pending_status_checks, poller, watchers, sent,
                    published, transportVars, pollingVars, factoryVars, alerts, http_response >>

\* MQTTService.handle_telegram_response and the start of
\* send_status_response, which is called without user_id: the keys of the
\* chat are collected.
handle_telegram_response(serial, chat) ==
    /\ mqtt_thread.pc = "idle"
    /\ Receive("telegram", serial, [chat_id |-> chat])
    /\ mqtt_thread' =
          IF chat = Absent THEN mqtt_thread
          ELSE [pc |-> "remove", chat_id |-> chat,
                keys |-> {k \in DOMAIN pending_status_checks : k[1] = chat}]
    /\ UNCHANGED << storeVars, pending_status_checks, poller, watchers, sent,
                    published, transportVars, pollingVars, factoryVars, alerts, http_response >>

\* send_status_response: the collected keys are deleted (a KeyError ends
\* the handler) and the status reply is sent.
send_status_response ==
    /\ mqtt_thread.pc = "remove"
    /\ IF mqtt_thread.keys \subseteq DOMAIN pending_status_checks
       THEN /\ pending_status_checks' =
                  Remove(pending_status_checks, mqtt_thread.keys)
            /\ sent' = sent (+) Send(mqtt_thread.chat_id, "status_reply")
       ELSE UNCHANGED << pending_status_checks, sent >>
    /\ mqtt_thread' = NoResponse
    /\ UNCHANGED << storeVars, poller, watchers, published, transportVars, pollingVars, factoryVars,
                    alerts, http_response, last_msg >>

\* MQTTService._on_connect with rc = 0 and _on_disconnect.
on_connect ==
    /\ connected' = TRUE
    /\ UNCHANGED << storeVars, chatVars, alerts, http_response, last_msg,
                    pollingVars, factoryVars >>

on_disconnect ==
    /\ connected' = FALSE
    /\ UNCHANGED << storeVars, chatVars, alerts, http_response, last_msg,
                    pollingVars, factoryVars >>

(* ---------------------------- message router --------------------------- *)

\* Topics as lists of the segments between the slashes: the telemetry and
\* status topics of every device, a status-response topic, the request
\* topic the service itself publishes on, a topic without a device and a
\* status topic with a fourth segment.
Topics ==
    { << "climbing" >>, << "climbing", "d1", "telegram" >>,
      << "climbing", "d1", "request" >>,
      << "climbing", "d2", "status", "retained" >> }
    \cup { << "climbing", s >> : s \in Serials }
    \cup { << "climbing", s, "status" >> : s \in Serials }

\* The statuses of the device schema that a device reports, Absent when the
\* payload has no status key.
ReportedStatuses == {Absent, "active", "inactive", "maintenance"}

\* A decoded JSON object: the keys the three handlers read.
NoData == [status |-> Absent, chat_id |-> Absent, session_state |-> Absent,
           session_id |-> Absent, alt |-> JNone, latitude |-> JNone]

RouterData ==
    { [NoData EXCEPT !.status = st] : st \in ReportedStatuses }
    \cup { [NoData EXCEPT !.chat_id = c] : c \in ChatIds }
    \cup { [NoData EXCEPT !.session_state = st, !.session_id = "s1",
                          !.alt = JNum(0),
                          !.latitude = JNum(LatitudeMax)] :
        st \in SessionStates }

\* The raw payloads: bytes that are not UTF-8, text that is not JSON, a
\* JSON value that is not an object, and the JSON objects.
Bodies ==
    { [kind |-> k, data |-> NoData] : k \in {"bytes", "text", "value"} }
    \cup { [kind |-> "object", data |-> d] : d \in RouterData }

\* json.loads(msg.payload.decode()): the exception it raises, Absent when
\* it returns a value.
DecodeError(body) ==
    IF body.kind = "bytes" THEN "UnicodeDecodeError"
    ELSE IF body.kind = "text" THEN "JSONDecodeError"
    ELSE Absent

\* The subclasses of Exception that the callback can meet.
Exceptions == {"JSONDecodeError", "UnicodeDecodeError", "AttributeError"}

\* An error boundary with the JSONDecodeError clause alone.
CaughtDecodeOnly(exc) == exc = "JSONDecodeError"

\* The except clauses of _on_message: JSONDecodeError, then Exception.
Caught(exc) == exc = "JSONDecodeError" \/ exc \in Exceptions

\* A router that takes a missing third segment for a status message.
MessageTypeDefaultStatus(topic) ==
    IF Len(topic) >= 3 THEN topic[3] ELSE "status"

\* message_type of _on_message.
MessageType(topic) == IF Len(topic) >= 3 THEN topic[3] ELSE "telemetry"

\* The keys of a decoded object that handle_telemetry reads.
TelemetryData(d) ==
    [session_state |-> d.session_state, session_id |-> d.session_id,
     alt |-> d.alt, latitude |-> d.latitude]

\* An auto-pair that gives the device to the first user.
auto_pair_device_insert(coll, serial) ==
    IF ActivePairingOfSerial(serial) # 0 THEN coll
    ELSE Append(coll, NewPairing(serial, "u1"))

\* MQTTService._auto_pair_device: it looks a pairing up and logs; the
\* collection is returned as it was.
auto_pair_device(coll, serial) == coll

\* A payload without a status taken for a device that went offline.
StatusDefaultInactive(status) ==
    IF status = Absent THEN "inactive" ELSE status

\* data.get("status", "active")
StatusOf(status) == IF status = Absent THEN "active" ELSE status

\* db_service.update_dr("device", id, {"data": {"status": ...}}).
UpdateDevice(coll, serial, status) == [coll EXCEPT ![serial] = status]

\* MQTTService.handle_status; status is data.get("status"), Absent when the
\* key is missing. The time of the update is the number of the message.
handle_status(serial, status) ==
    /\ mqtt_thread.pc = "idle"
    /\ Receive("status", serial, [status |-> status])
    /\ IF ~DeviceExists(serial)
       THEN UNCHANGED << device_collection, last_sync_at,
                         device_pairing_collection >>
       ELSE LET reported == StatusOf(status)
            IN  /\ device_pairing_collection' =
                      IF device_collection[serial] = "inactive"
                         /\ reported = "active"
                      THEN auto_pair_device(device_pairing_collection, serial)
                      ELSE device_pairing_collection
                /\ device_collection' =
                      UpdateDevice(device_collection, serial, reported)
                /\ last_sync_at' =
                      [last_sync_at EXCEPT ![serial] = last_msg.n + 1]
    /\ UNCHANGED << sessionVars, emergency_contact_collection, chatVars,
                    transportVars, pollingVars, factoryVars, alerts,
                    http_response >>

\* A message that ends in an except clause before any handler has written:
\* the callback returns and only the log tells.
Drop(class, serial) ==
    /\ Receive(class, serial, NoPayload)
    /\ UNCHANGED << storeVars, chatVars, transportVars, pollingVars,
                    factoryVars, alerts, http_response >>

\* An exception that leaves the callback ends the network loop of the
\* client library: no later message is delivered.
Escape ==
    /\ Receive("escaped", Absent, NoPayload)
    /\ mqtt_thread' = [NoResponse EXCEPT !.pc = "dead"]
    /\ UNCHANGED << storeVars, pending_status_checks, poller, watchers, sent,
                    published, transportVars, pollingVars, factoryVars,
                    alerts, http_response >>

\* MQTTService._on_message. A JSON value that is not an object reaches the
\* handler, whose first data.get raises inside the handler's own try.
on_message(topic, body, failing) ==
    /\ mqtt_thread.pc = "idle"
    /\ IF DecodeError(body) # Absent
       THEN IF Caught(DecodeError(body))
            THEN Drop("undecoded", Absent)
            ELSE Escape
       ELSE IF Len(topic) < 2
       THEN Drop("unrouted", Absent)
       ELSE LET serial_number == topic[2]
                message_type == MessageType(topic)
            IN  IF body.kind = "value"
                THEN Drop(IF message_type \in {"status", "telegram"}
                          THEN message_type ELSE "telemetry", serial_number)
                ELSE IF message_type = "status"
                THEN handle_status(serial_number, body.data.status)
                ELSE IF message_type = "telegram"
                THEN handle_telegram_response(serial_number,
                                              body.data.chat_id)
                ELSE handle_telemetry(serial_number,
                                      TelemetryData(body.data), failing)

(* -------------------------- emergency contacts ------------------------- *)

\* A delete that leaves the contact's flag as it is.
SoftDeleteKeepsFlag == [is_active |-> TRUE]

\* update_data of the two soft-delete routes: {"data": {"is_active": False}}
SoftDeleteUpdates == [is_active |-> FALSE]

\* db_service.update_dr("emergency_contact", id, updates) on record i.
UpdateContact(coll, i, updates) == [coll EXCEPT ![i] = Merge(@, updates)]

\* db_service.delete_dr("emergency_contact", id) on record i.
DeleteContact(coll, i) ==
    [j \in 1..(Len(coll) - 1) |-> IF j < i THEN coll[j] ELSE coll[j + 1]]

ContactResponse(op, user, result) ==
    http_response' = [n |-> http_response.n + 1, op |-> op, user_id |-> user,
                      serial |-> Absent, result |-> result]

\* DELETE /emergency-contact/<contact_id> for the id of record i.
delete_emergency_contact(i) ==
    /\ http_response.n < MaxHttp
    /\ emergency_contact_collection' =
          UpdateContact(emergency_contact_collection, i, SoftDeleteUpdates)
    /\ ContactResponse("delete_contact", Absent, "deleted")
    /\ UNCHANGED << device_collection, last_sync_at,
                    device_pairing_collection, sessionVars, chatVars,
                    transportVars, pollingVars, factoryVars, alerts,
                    last_msg >>

\* POST /delete-emergency-contact/<contact_id> by a logged-in user, for the
\* id of record i: only the owner's request is carried out.
auth_delete_emergency_contact(user, i) ==
    /\ http_response.n < MaxHttp
    /\ IF emergency_contact_collection[i].user_id # user
       THEN /\ ContactResponse("auth_delete_contact", user, "unauthorized")
            /\ UNCHANGED emergency_contact_collection
       ELSE /\ emergency_contact_collection' =
                  UpdateContact(emergency_contact_collection, i,
                                SoftDeleteUpdates)
            /\ ContactResponse("auth_delete_contact", user, "deleted")
    /\ UNCHANGED << device_collection, last_sync_at,
                    device_pairing_collection, sessionVars, chatVars,
                    transportVars, pollingVars, factoryVars, alerts,
                    last_msg >>

\* DELETE /emergency-contact/<contact_id>/hard-delete for the id of record i.
hard_delete_emergency_contact(i) ==
    /\ http_response.n < MaxHttp
    /\ emergency_contact_collection' =
          DeleteContact(emergency_contact_collection, i)
    /\ ContactResponse("hard_delete_contact", Absent, "deleted")
    /\ UNCHANGED << device_collection, last_sync_at,
                    device_pairing_collection, sessionVars, chatVars,
                    transportVars, pollingVars, factoryVars, alerts,
                    last_msg >>

(* ----------------------------- chat polling ---------------------------- *)

\* The loops that have not returned.
RunningLoops == {i \in 1..Len(polling_loops) : polling_loops[i] # "ended"}

\* TelegramService.start_polling: nothing when the flag is set, else the
\* flag is set and a new thread is started on _polling_loop.
start_polling ==
    /\ Len(polling_loops) < MaxLoops
    /\ IF polling_active
       THEN UNCHANGED pollingVars
       ELSE /\ polling_active' = TRUE
            /\ polling_loops' = Append(polling_loops, "testing")
    /\ UNCHANGED << storeVars, chatVars, transportVars, factoryVars, alerts,
                    http_response, last_msg >>

\* polling_thread.join(timeout=5) on the thread started last: a thread at
\* the loop condition returns at once; one inside the 30 second long poll
\* or the handling of an update returns in time or the join gives up.
JoinOutcomes(loops) ==
    IF loops = << >> THEN {loops}
    ELSE LET last == Len(loops)
         IN  IF loops[last] = "testing"
             THEN {[loops EXCEPT ![last] = "ended"]}
             ELSE IF loops[last] = "ended" THEN {loops}
             ELSE {loops, [loops EXCEPT ![last] = "ended"]}

\* TelegramService.stop_polling
stop_polling ==
    /\ polling_active' = FALSE
    /\ polling_loops' \in JoinOutcomes(polling_loops)
    /\ UNCHANGED << storeVars, chatVars, transportVars, factoryVars, alerts,
                    http_response, last_msg >>

\* _polling_loop at "while self.polling_active".
loop_test(i) ==
    /\ polling_loops[i] = "testing"
    /\ polling_loops' = [polling_loops EXCEPT ![i] =
                            IF polling_active THEN "polling" ELSE "ended"]
    /\ UNCHANGED << polling_active, storeVars, chatVars, transportVars,
                    factoryVars, alerts, http_response, last_msg >>

\* _polling_loop: _get_updates has returned and the updates are handled.
loop_poll(i) ==
    /\ polling_loops[i] = "polling"
    /\ polling_loops' = [polling_loops EXCEPT ![i] = "sleeping"]
    /\ UNCHANGED << polling_active, storeVars, chatVars, transportVars,
                    factoryVars, alerts, http_response, last_msg >>

\* _polling_loop: the sleep at the end of a round is over.
loop_sleep(i) ==
    /\ polling_loops[i] = "sleeping"
    /\ polling_loops' = [polling_loops EXCEPT ![i] = "testing"]
    /\ UNCHANGED << polling_active, storeVars, chatVars, transportVars,
                    factoryVars, alerts, http_response, last_msg >>

(* ------------------------------- DRFactory ----------------------------- *)

\* The enum constraints of the schemas.
PairingStatuses == {"active", "unpaired", "suspended", "expired"}
DeviceStatuses == {"active", "inactive", "maintenance", "retired"}

\* The types with an enumerated field: session_state in the profile of a
\* climbing_session, pairing_status in the data of a device_pairing and
\* status in the data of a device.
DrTypes == {"climbing_session", "device_pairing", "device"}

EnumValues(dr_type) ==
    IF dr_type = "climbing_session" THEN SessionStates
    ELSE IF dr_type = "device_pairing" THEN PairingStatuses
    ELSE DeviceStatuses

\* The values a caller may hand over for the enumerated field.
FieldValues ==
    {Str(s) : s \in SessionStates \cup PairingStatuses \cup DeviceStatuses
                    \cup {"INVALID_STATE", "broken"}}
    \cup {Number, Null, Unset}

\* The field is declared str: the generated model takes a string and
\* nothing else for a key that is given.
TypeValid(v) == v.kind = "str"

\* A validator without the enum rule.
EnumUnchecked(dr_type, v) == TRUE

\* validate_constraints: a value that is not None has to be one of the
\* schema's enum values.
EnumValid(dr_type, v) == v.kind = "null" \/ v.value \in EnumValues(dr_type)

\* ProfileModel(**section) / DataModel(**section) for the section with the
\* enumerated field: a key that is left out is not validated.
SectionValid(dr_type, v) ==
    v.kind = "unset" \/ (TypeValid(v) /\ EnumValid(dr_type, v))

\* DRFactory.create_dr with the enumerated field given as v.
create_dr(dr_type, v) ==
    /\ dr_call.n < MaxCalls
    /\ dr_call' =
          IF SectionValid(dr_type, v)
          THEN [n |-> dr_call.n + 1, op |-> "create_dr", dr_type |-> dr_type,
                value |-> v, result |-> "returned", returned |-> v,
                stored |-> v]
          ELSE [dr_call EXCEPT !.n = @ + 1, !.op = "create_dr",
                               !.dr_type = dr_type, !.value = v,
                               !.result = "raises", !.returned = Unset]
    /\ UNCHANGED << storeVars, chatVars, transportVars, pollingVars, alerts,
                    http_response, last_msg, dr_objects >>

\* DRFactory.update_dr on the record returned last, with the enumerated
\* field updated to v: the section is the current one overlaid with the
\* update, and it is validated as a whole.
update_dr(v) ==
    /\ dr_call.n < MaxCalls
    /\ dr_call.result = "returned"
    /\ LET merged == IF v.kind = "unset" THEN dr_call.stored ELSE v
       IN  dr_call' =
              IF SectionValid(dr_call.dr_type, merged)
              THEN [dr_call EXCEPT !.n = @ + 1, !.op = "update_dr",
                                   !.value = v, !.result = "returned",
                                   !.returned = merged, !.stored = merged]
              ELSE [dr_call EXCEPT !.n = @ + 1, !.op = "update_dr",
                                   !.value = v, !.result = "raises",
                                   !.returned = Unset]
    /\ UNCHANGED << storeVars, chatVars, transportVars, pollingVars, alerts,
                    http_response, last_msg, dr_objects >>

(* ---------------------- DRFactory on whole records --------------------- *)

\* The argument of create_dr and update_dr for a climbing_session: the
\* sections it names, with the keys of each. session_state is the
\* enumerated str field of the profile; user_id is a str field and end_alt
\* a float field of the data; note is a key the schema does not declare.
\* A section that is not named carries no key.
Sections ==
    {u \in [given : SUBSET {"profile", "data", "metadata"},
            profile : [session_state : {Unset, Str("START"), Str("END"),
                                        Str("INVALID_STATE")}],
            data : [user_id : {Unset, Str("u1")},
                    end_alt : {Unset, Number, Str("7"), Null},
                    note : {Unset, Str("x")}],
            metadata : [note : {Unset, Str("m")}]] :
        /\ "profile" \notin u.given => u.profile = NoProfile
        /\ "data" \notin u.given => u.data = NoSection
        /\ "metadata" \in u.given <=> u.metadata.note # Unset}

\* An update that puts the update's section in the place of the current one.
ReplaceSection(current, update) == update

\* current | updates on two dictionaries with the same keys: a key of the
\* update wins, also when its value is None.
DictUnion(current, update) ==
    [k \in DOMAIN current |->
        IF update[k].kind = "unset" THEN current[k] ELSE update[k]]

\* A field declared float takes a number, or a string that reads as a
\* number and is converted to it.
FloatValid(v) == v.kind = "number" \/ (v.kind = "str" /\ v.value \in {"5", "7"})
FloatValue(v) == [kind |-> "number", value |-> v.value]

\* ProfileModel(**section): the section passes validation.
ProfileValid(section) == SectionValid("climbing_session", section.session_state)

\* DataModel(**section): the section passes validation; the undeclared key
\* is ignored.
DataValid(section) ==
    /\ section.user_id.kind = "unset" \/ TypeValid(section.user_id)
    /\ section.end_alt.kind = "unset" \/ FloatValid(section.end_alt)

\* model_dump(exclude_unset=True) of the validated data section: the
\* declared keys that were given, converted to their types.
DataDump(section) ==
    [user_id |-> section.user_id,
     end_alt |-> IF section.end_alt.kind = "unset" THEN Unset
                 ELSE FloatValue(section.end_alt),
     note |-> Unset]

\* dr.copy(): a new top-level dictionary whose values are the objects of
\* the original, the metadata dictionary among them.
CopyMetadata(heap, ref) == [heap |-> heap, ref |-> ref]

\* The record object with its metadata read from the heap.
Snapshot(record, heap) ==
    [profile |-> record.profile, data |-> record.data,
     metadata |-> IF record.metadata = 0 THEN NoMetadata
                  ELSE heap[record.metadata]]

\* DRFactory.create_dr("climbing_session", initial_data): utcnow is read
\* for created_at and again for updated_at.
create_dr_record(initial_data) ==
    /\ dr_objects.n = 0
    /\ LET profile == initial_data.profile
           data == initial_data.data
           md == [created_at |-> dr_objects.utcnow + 1,
                  updated_at |-> dr_objects.utcnow + 2,
                  note |-> initial_data.metadata.note]
       IN  dr_objects' =
              IF ProfileValid(profile) /\ DataValid(data)
              THEN [dr_objects EXCEPT
                       !.n = 1, !.op = "create_dr", !.result = "returned",
                       !.utcnow = @ + 2,
                       !.heap = Append(@, md),
                       !.updates = initial_data,
                       !.updated_dr = [profile |-> profile,
                                       data |-> DataDump(data),
                                       metadata |-> Len(dr_objects.heap) + 1]]
              ELSE [dr_objects EXCEPT
                       !.n = 1, !.op = "create_dr", !.result = "raises",
                       !.utcnow = @ + 2, !.updates = initial_data]
    /\ UNCHANGED << storeVars, chatVars, transportVars, pollingVars, alerts,
                    http_response, last_msg, dr_call >>

\* DRFactory.update_dr(dr, updates) with dr the record returned last. The
\* sections are validated before the metadata is touched, so a call that
\* raises leaves every object as it was.
update_dr_record(updates) ==
    /\ dr_objects.n \in 1..MaxUpdates
    /\ dr_objects.updated_dr.metadata # 0
    /\ LET dr == dr_objects.updated_dr
           copy == CopyMetadata(dr_objects.heap, dr.metadata)
           profile == DictUnion(dr.profile, updates.profile)
           data == DictUnion(dr.data, updates.data)
           now == dr_objects.utcnow + 1
       IN  dr_objects' =
              IF /\ "profile" \in updates.given => ProfileValid(profile)
                 /\ "data" \in updates.given => DataValid(data)
              THEN [dr_objects EXCEPT
                       !.n = @ + 1, !.op = "update_dr", !.result = "returned",
                       !.utcnow = now,
                       !.dr = dr,
                       !.before = Snapshot(dr, dr_objects.heap),
                       !.updates = updates,
                       !.heap = [copy.heap EXCEPT
                                    ![copy.ref].note =
                                        IF "metadata" \in updates.given
                                        THEN updates.metadata.note ELSE @,
                                    ![copy.ref].updated_at = now],
                       !.updated_dr =
                           [profile |-> IF "profile" \in updates.given
                                        THEN profile ELSE dr.profile,
                            data |-> IF "data" \in updates.given
                                     THEN DataDump(data) ELSE dr.data,
                            metadata |-> copy.ref]]
              ELSE [dr_objects EXCEPT
                       !.n = @ + 1, !.op = "update_dr", !.result = "raises",
                       !.dr = dr,
                       !.before = Snapshot(dr, dr_objects.heap),
                       !.updates = updates]
    /\ UNCHANGED << storeVars, chatVars, transportVars, pollingVars, alerts,
                    http_response, last_msg, dr_call >>


(* ---------------------------- initial states --------------------------- *)

\* The services right after construction, on an empty store.
Init ==
    /\ device_collection = [s \in Serials |-> Absent]
    /\ last_sync_at = [s \in Serials |-> 0]
    /\ polling_active = FALSE
    /\ polling_loops = << >>
    /\ dr_call = NoCall
    /\ dr_objects = NoObjects
    /\ device_pairing_collection = << >>
    /\ climbing_session_collection = << >>
    /\ session_event_collection = << >>
    /\ emergency_contact_collection = << >>
    /\ pending_status_checks = << >>
    /\ connected = FALSE
    /\ poller = NoPoller
    /\ watchers = [r \in {} |-> NoWatcher]
    /\ mqtt_thread = NoResponse
    /\ sent = EmptyBag
    /\ published = << >>
    /\ alerts = << >>
    /\ http_response = [n |-> 0, op |-> Absent, user_id |-> Absent,
                        serial |-> Absent, result |-> Absent]
    /\ last_msg = NoMsg

\* Stores that registrations, unregistrations, first status messages and
\* added contacts leave behind: d1 is paired with u1 and has connected; d2
\* is unknown, or unregistered by u2, or paired with u2.
ProvisionedDevices ==
    { << [d1 |-> "active", d2 |-> Absent],
         << NewPairing("d1", "u1") >> >>,
      << [d1 |-> "active", d2 |-> "inactive"],
         << NewPairing("d1", "u1"),
            [NewPairing("d2", "u2") EXCEPT !.pairing_status = "unpaired"] >> >>,
      << [d1 |-> "active", d2 |-> "active"],
         << NewPairing("d1", "u1"), NewPairing("d2", "u2") >> >> }

Contact(name, chat, user, active) ==
    [name |-> name, telegram_chat_id |-> chat, user_id |-> user,
     is_active |-> active]

\* No contacts at all, or: u1 has two active contacts with a chat, an active
\* one without a chat and a soft-deleted one; u2 has a soft-deleted one.
ProvisionedContacts ==
    { << >>,
      << Contact("n1", "c1", "u1", TRUE), Contact("n2", Absent, "u1", TRUE),
         Contact("n3", "c1", "u1", FALSE), Contact("n4", "c2", "u2", FALSE),
         Contact("n5", "c2", "u1", TRUE) >> }

InitIdle ==
    /\ last_sync_at = [s \in Serials |-> 0]
    /\ polling_active = FALSE
    /\ polling_loops = << >>
    /\ dr_call = NoCall
    /\ dr_objects = NoObjects
    /\ climbing_session_collection = << >>
    /\ session_event_collection = << >>
    /\ pending_status_checks = << >>
    /\ connected = TRUE
    /\ poller = NoPoller
    /\ watchers = [r \in {} |-> NoWatcher]
    /\ mqtt_thread = NoResponse
    /\ sent = EmptyBag
    /\ published = << >>
    /\ alerts = << >>
    /\ http_response = [n |-> 0, op |-> Absent, user_id |-> Absent,
                        serial |-> Absent, result |-> Absent]
    /\ last_msg = NoMsg

InitProvisioned ==
    /\ \E p \in ProvisionedDevices :
          /\ device_collection = p[1]
          /\ device_pairing_collection = p[2]
    /\ emergency_contact_collection \in ProvisionedContacts
    /\ InitIdle

\* The store of the status-check runs: u1 has registered d1, which has
\* connected or not yet, and has added the three contacts.
InitCheck ==
    /\ device_collection \in {[d1 |-> "active", d2 |-> Absent],
                              [d1 |-> "inactive", d2 |-> Absent]}
    /\ device_pairing_collection = << NewPairing("d1", "u1") >>
    /\ emergency_contact_collection =
          << Contact("n1", "c1", "u1", TRUE), Contact("n2", Absent, "u1", TRUE),
             Contact("n3", "c2", "u1", FALSE) >>
    /\ InitIdle

Telemetry ==
    /\ last_msg.n < MaxMsgs
    /\ \E serial \in Serials, data \in Payloads :
          \E failing \in SendOutcomes(data) :
             handle_telemetry(serial, data, failing)

NextTel == Telemetry

SpecTel == InitProvisioned /\ [][NextTel]_vars

\* The device d1 reports one session s1 in the order START, ACTIVE, ACTIVE,
\* END, every message with numeric fields that pass validation.
Script == << "START", "ACTIVE", "ACTIVE", "END" >>

ScriptedTelemetry ==
    /\ last_msg.n < Len(Script)
    /\ \E data \in Payloads :
          /\ data.session_state = Script[last_msg.n + 1]
          /\ data.session_id = "s1"
          /\ IF data.session_state = "START" THEN ValidSessionData(data)
                                              ELSE ValidEventData(data)
          /\ handle_telemetry("d1", data, {})

NextSeq == ScriptedTelemetry

SpecSeq == InitProvisioned /\ [][NextSeq]_vars

\* The device d1 reports any states in any order for the session s1, every
\* message with an altitude that passes validation.
LifeTelemetry ==
    /\ last_msg.n < MaxLife
    /\ \E state \in SessionStates, n \in 0..MaxAlt :
          handle_telemetry("d1", [session_state |-> state, session_id |-> "s1",
                                  alt |-> JNum(n),
                                  latitude |-> JNum(LatitudeMax)], {})

NextLife == LifeTelemetry

SpecLife == InitProvisioned /\ [][NextLife]_vars

\* The status-check protocol next to the telemetry of device d1 for the
\* session s1.
CheckStatus ==
    \E chat \in ChatIds \cup {UnknownChat}, result \in PublishResults :
        handle_check_status(chat, result)
RegisterPending == register_pending
TimeoutCheck == \E r \in DOMAIN watchers : timeout_check(r)
TimeoutFire == \E r \in DOMAIN watchers : timeout_fire(r)
DeviceResponse ==
    /\ last_msg.n < MaxMsgs
    /\ \E chat \in ChatIds \cup {Absent} : handle_telegram_response("d1", chat)
SendStatusResponse == send_status_response
Connect == on_connect
Disconnect == on_disconnect

SessionTelemetry ==
    /\ last_msg.n < MaxMsgs
    /\ \E state \in {"START", "ACTIVE", "END"} :
          handle_telemetry("d1", [session_state |-> state, session_id |-> "s1",
                                  alt |-> JNum(0),
                                  latitude |-> JNum(LatitudeMax)], {})

NextCheck ==
    \/ CheckStatus
    \/ RegisterPending
    \/ TimeoutCheck
    \/ TimeoutFire
    \/ DeviceResponse
    \/ SendStatusResponse
    \/ Connect
    \/ Disconnect
    \/ SessionTelemetry

SpecCheck == InitCheck /\ [][NextCheck]_vars

\* The requests, responses and timeouts alone, on a connected transport.
\* The threads keep running: the polling thread goes on from the publish
\* to the registration, a timeout thread wakes up after its sleep and goes
\* on to its end, and the transport thread finishes the response it has
\* begun.
NextPending ==
    \/ CheckStatus
    \/ RegisterPending
    \/ TimeoutCheck
    \/ TimeoutFire
    \/ DeviceResponse
    \/ SendStatusResponse

\* The requests, responses and timeouts of a run in which the command is
\* sent more than once.
RepeatedCheckStatus ==
    \E chat \in ChatIds \cup {UnknownChat}, result \in PublishResults :
        check_status(chat, result, MaxRepeats)

NextRepeat ==
    \/ RepeatedCheckStatus
    \/ RegisterPending
    \/ TimeoutCheck
    \/ TimeoutFire
    \/ DeviceResponse
    \/ SendStatusResponse

SpecRepeat == InitCheck /\ [][NextRepeat]_vars

SpecPending ==
    /\ InitCheck
    /\ [][NextPending]_vars
    /\ WF_vars(RegisterPending)
    /\ WF_vars(TimeoutCheck)
    /\ WF_vars(TimeoutFire)
    /\ WF_vars(SendStatusResponse)

\* The status-check protocol on a store where the chat c2 belongs to a
\* contact without a user, or of a user that no longer exists, or of a
\* user without any device.
InitResolve ==
    /\ device_collection \in {[d1 |-> "active", d2 |-> Absent],
                              [d1 |-> "inactive", d2 |-> Absent]}
    /\ device_pairing_collection = << NewPairing("d1", "u1") >>
    /\ \E user \in {Absent, MissingUser, "u2"} :
          emergency_contact_collection =
             << Contact("n1", "c1", "u1", TRUE),
                Contact("n2", "c2", user, TRUE) >>
    /\ InitIdle

SpecResolve == InitResolve /\ [][NextCheck]_vars

\* The transport callback on a provisioned store.
OnMessage ==
    /\ last_msg.n < MaxMsgs
    /\ \E topic \in Topics, body \in Bodies :
          \E failing \in SendOutcomes(body.data) :
             on_message(topic, body, failing)

NextRouter == OnMessage \/ SendStatusResponse

SpecRouter == InitProvisioned /\ [][NextRouter]_vars

Register == \E u \in Users, s \in Serials : register_device(u, s)
Unregister == \E u \in Users, s \in Serials : unregister_device(u, s)

NextReg == Register \/ Unregister

SpecReg == Init /\ [][NextReg]_vars

\* Calls of the factory with any value for the enumerated field.
CreateDr == \E dr_type \in DrTypes, v \in FieldValues : create_dr(dr_type, v)
UpdateDr == \E v \in FieldValues : update_dr(v)

NextFactory == CreateDr \/ UpdateDr

SpecFactory == Init /\ [][NextFactory]_vars

CreateDrRecord == \E initial_data \in Sections : create_dr_record(initial_data)
UpdateDrRecord == \E updates \in Sections : update_dr_record(updates)

NextRecords == CreateDrRecord \/ UpdateDrRecord

SpecRecords == Init /\ [][NextRecords]_vars

\* The contact routes next to the telemetry of d1 for the session s1; u1
\* owns d1 and has a contact for each chat, u2 has one for the chat c2.
InitContacts ==
    /\ device_collection = [d1 |-> "active", d2 |-> Absent]
    /\ device_pairing_collection = << NewPairing("d1", "u1") >>
    /\ emergency_contact_collection =
          << Contact("n1", "c1", "u1", TRUE), Contact("n2", "c2", "u1", TRUE),
             Contact("n3", "c2", "u2", TRUE) >>
    /\ InitIdle

SoftDelete ==
    \E i \in 1..Len(emergency_contact_collection) :
        delete_emergency_contact(i)
AuthSoftDelete ==
    \E user \in Users, i \in 1..Len(emergency_contact_collection) :
        auth_delete_emergency_contact(user, i)
HardDelete ==
    \E i \in 1..Len(emergency_contact_collection) :
        hard_delete_emergency_contact(i)
IncidentTelemetry ==
    /\ last_msg.n < MaxMsgs
    /\ \E state \in {"START", "INCIDENT"}, failing \in SUBSET ChatIds :
          handle_telemetry("d1", [session_state |-> state, session_id |-> "s1",
                                  alt |-> JNum(0),
                                  latitude |-> JNum(LatitudeMax)],
                           IF state = "INCIDENT" THEN failing ELSE {})

NextContacts == SoftDelete \/ AuthSoftDelete \/ HardDelete \/ IncidentTelemetry

SpecContacts == InitContacts /\ [][NextContacts]_vars

\* The owner of the service starts and stops the polling while the loops
\* run.
StartPolling == start_polling
StopPolling == stop_polling
LoopTest == \E i \in 1..Len(polling_loops) : loop_test(i)
LoopPoll == \E i \in 1..Len(polling_loops) : loop_poll(i)
LoopSleep == \E i \in 1..Len(polling_loops) : loop_sleep(i)

NextPoll == StartPolling \/ StopPolling \/ LoopTest \/ LoopPoll \/ LoopSleep

SpecPoll == Init /\ [][NextPoll]_vars

\* Status messages and START telemetry of the devices next to the
\* register-device route.
StatusMessage ==
    /\ last_msg.n < MaxMsgs
    /\ \E serial \in Serials, status \in ReportedStatuses :
          handle_status(serial, status)

StartTelemetry ==
    /\ last_msg.n < MaxMsgs
    /\ \E serial \in Serials :
          handle_telemetry(serial,
                           [session_state |-> "START", session_id |-> "s1",
                            alt |-> JNum(0),
                            latitude |-> JNum(LatitudeMax)], {})

\* The users register further devices, the devices report their status and
\* the contacts ask for the status of their user.
NextDevices ==
    \/ Register
    \/ StatusMessage
    \/ CheckStatus
    \/ RegisterPending

SpecDevices == InitCheck /\ [][NextDevices]_vars

\* The device d1 reports a session while the users register and unregister
\* devices.
NextOwner == IncidentTelemetry \/ Register \/ Unregister

SpecOwner == InitContacts /\ [][NextOwner]_vars

NextPair == StatusMessage \/ StartTelemetry \/ Register

SpecPair == InitProvisioned /\ [][NextPair]_vars

(* ------------------------- registry properties ------------------------ *)

PairingsOf(serial, user) ==
    {i \in 1..Len(device_pairing_collection) :
        /\ device_pairing_collection[i].device_serial = serial
        /\ device_pairing_collection[i].user_id = user}

ActivePairingsOfSerial(serial) ==
    {i \in 1..Len(device_pairing_collection) :
        /\ device_pairing_collection[i].device_serial = serial
        /\ device_pairing_collection[i].pairing_status = "active"}

\* C2: after any sequence of register-device and unregister-device
\* operations, every device serial has at most one pairing record whose
\* pairing_status is active.
C2_AtMostOneActivePairing ==
    \A s \in Serials : Cardinality(ActivePairingsOfSerial(s)) <= 1

RegisterStep ==
    http_response'.n # http_response.n /\ http_response'.op = "register"

TelemetryStep ==
    last_msg'.n # last_msg.n /\ last_msg'.class = "telemetry"

\* The message names a session and a state and comes from a known device
\* with an active pairing.
ValidTelemetry(serial, data) ==
    /\ data.session_state # Absent
    /\ data.session_id # Absent
    /\ DeviceExists(serial)
    /\ UserFromDevice(serial) # Absent

EventsOf(session_id) ==
    {i \in 1..Len(session_event_collection) :
        session_event_collection[i].session_id = session_id}

\* C3: telemetry whose serial names no device, or a device without an
\* active pairing, changes no ClimbingSession and no SessionEvent and
\* dispatches no alert.
C3_UnpairedTelemetryDiscarded ==
    [][ ( /\ TelemetryStep
          /\ \/ ~DeviceExists(last_msg'.serial)
             \/ UserFromDevice(last_msg'.serial) = Absent )
        => UNCHANGED << climbing_session_collection,
                        session_event_collection, alerts, sent >>
      ]_vars

\* A START for a named session arrived from a registered device whose
\* pairing is unpaired, after a session had been recorded for another one.
C3_Witness ==
    /\ last_msg.class = "telemetry"
    /\ last_msg.payload.session_state = "START"
    /\ last_msg.payload.session_id # Absent
    /\ DeviceExists(last_msg.serial)
    /\ UserFromDevice(last_msg.serial) = Absent
    /\ Len(climbing_session_collection) = 1

ProducesEvent(data) ==
    \/ data.session_state = "START" /\ ValidSessionData(data)
    \/ /\ data.session_state \in {"ACTIVE", "END", "INCIDENT"}
       /\ FindSessionById(data.session_id) # 0
       /\ ValidEventData(data)

HasLiveSession(user) ==
    \E i \in 1..Len(climbing_session_collection) :
        /\ Get(climbing_session_collection[i].data, "user_id") = user
        /\ Get(climbing_session_collection[i].profile, "session_state")
              \in {"START", "ACTIVE"}

\* The status replies sent to the chat of request r since r was registered.
RepliesSince(r) ==
    Sent(watchers[r].chat_id, "status_reply") - watchers[r].since

\* Request r is the only one registered for its chat.
OnlyRequestOfChat(r) ==
    \A q \in DOMAIN watchers :
        watchers[q].chat_id = watchers[r].chat_id => q = r

\* The timeout thread of request r sends its notification in this step.
TimeoutReplyStep(r) ==
    watchers[r].pc = "expired" /\ watchers'[r].pc = "replied"

\* C1: for a registered request, whatever the interleaving of the device
\* response and the timeout watcher, exactly one of the status reply and
\* the timeout reply is sent: once the watcher has finished, it has
\* replied and no status reply was sent, or it stayed silent and a status
\* reply was sent.
C1_ExactlyOneReply ==
    \A r \in DOMAIN watchers :
        OnlyRequestOfChat(r)
        => /\ watchers[r].pc = "replied" => RepliesSince(r) = 0
           /\ watchers[r].pc = "silent" => RepliesSince(r) > 0

\* C5: when the timeout of a dispatched request fires while the user has
\* a session in state START or ACTIVE, the requester is sent the device
\* unreachable message and not the no active session message.
C5_UnreachableWhenSessionLive ==
    [][ \A r \in DOMAIN watchers :
          ( TimeoutReplyStep(r) /\ HasLiveSession(watchers[r].user_id) )
          => sent' = sent (+) Send(watchers[r].chat_id, "device_unreachable")
      ]_vars

\* C6: when the timeout of a dispatched request fires while the user has
\* no session in state START or ACTIVE, the requester is sent the no
\* active session message.
C6_NoActiveSessionWhenNoneLive ==
    [][ \A r \in DOMAIN watchers :
          ( TimeoutReplyStep(r) /\ ~HasLiveSession(watchers[r].user_id) )
          => sent' = sent (+) Send(watchers[r].chat_id, "no_active_session")
      ]_vars

\* The timeout of a request has replied for a user whose only session has
\* ended, and the device sent no response.
C6_Witness ==
    /\ \E r \in DOMAIN watchers :
          /\ watchers[r].pc = "replied"
          /\ Sent(watchers[r].chat_id, "no_active_session") = 1
          /\ ~HasLiveSession(watchers[r].user_id)
    /\ Len(climbing_session_collection) = 1
    /\ climbing_session_collection[1].profile.session_state = "END"
    /\ last_msg.class = "telemetry"

\* The polling thread handles a /check_status command in this step.
CheckStatusStep == poller'.n = poller.n + 1

\* The command of this step reached the publish and the publish failed:
\* the client was not connected, or it returned an error or raised.
PublishFailedStep(chat) ==
    /\ CheckStatusStep
    /\ FindEmergencyContactByChatId(chat) # 0
    /\ FindUserActiveDevice(
          emergency_contact_collection[FindEmergencyContactByChatId(chat)]
              .user_id) # Absent
    /\ Sent(chat, "processing")' = Sent(chat, "processing") + 1
    /\ \/ ~connected
       \/ /\ Len(published') = Len(published) + 1
          /\ published'[Len(published')].result # "success"

\* C7: when the publish of a status request fails, the requester is sent
\* the failure message in the same command handling, no pending request
\* is registered and no timeout watcher is started; a watcher is only
\* ever started after a publish that succeeded.
C7_FailedPublishRegistersNothing ==
    [][ /\ \A chat \in ChatIds :
              PublishFailedStep(chat)
              => /\ sent' = sent (+) Send(chat, "processing")
                                 (+) Send(chat, "request_failed")
                 /\ UNCHANGED << pending_status_checks, watchers >>
                 /\ poller'.pc = "idle"
        /\ DOMAIN watchers' # DOMAIN watchers
              => /\ published # << >>
                 /\ published[Len(published)].result = "success"
                 /\ UNCHANGED sent
      ]_vars

\* A request failed because the publish raised: the failure message is out,
\* no watcher runs and nothing is pending.
C7_Witness ==
    /\ Sent("c1", "request_failed") = 1
    /\ Len(published) = 1
    /\ published[1].result = "raises"
    /\ poller.pc = "idle"
    /\ DOMAIN watchers = {}
    /\ pending_status_checks = << >>

(* ------------------------- incident properties ------------------------ *)

\* The message of this step is an INCIDENT that the handler takes up to the
\* dispatch: known session, paired device, event data that passes validation.
IncidentStep ==
    /\ TelemetryStep
    /\ ValidTelemetry(last_msg'.serial, last_msg'.payload)
    /\ last_msg'.payload.session_state = "INCIDENT"
    /\ FindSessionById(last_msg'.payload.session_id) # 0
    /\ ValidEventData(last_msg'.payload)

\* The state of the session with the id after the step.
StateAfter(session_id) ==
    climbing_session_collection'[
        SessionIndex(climbing_session_collection', session_id)]
        .profile.session_state

\* No stored emergency contact of the user has is_active = true.
HasNoActiveContact(user) ==
    \A i \in 1..Len(emergency_contact_collection) :
        emergency_contact_collection[i].user_id = user
        => ~emergency_contact_collection[i].is_active

C12_ReplyOnlyIfPending ==
    [][ \A chat \in ChatIds :
          Sent(chat, "status_reply")' > Sent(chat, "status_reply")
          => \E k \in DOMAIN pending_status_checks :
                /\ k[1] = chat
                /\ k \notin DOMAIN pending_status_checks'
      ]_vars

\* C13: when a status response for a dispatched request was processed
\* before the request's deadline elapsed (after the publish, also before
\* the pending entry was registered), the timeout watcher of the request
\* sends no message.
C13_ResponseCancelsWatcher ==
    \A r \in DOMAIN watchers :
        ( /\ OnlyRequestOfChat(r)
          /\ watchers[r].pc \in {"expired", "replied", "silent"}
          /\ watchers[r].woke > watchers[r].asked )
        => watchers[r].pc # "replied"

(* ------------------------ lifecycle properties ------------------------ *)

SessionsOf(session_id) ==
    {i \in 1..Len(climbing_session_collection) :
        Get(climbing_session_collection[i].data, "session_id") = session_id}

\* C14: at most one ClimbingSession exists per session id; a START for an
\* id that already has a ClimbingSession creates no second one.
C14_OneSessionPerId ==
    \A sid \in SessionIds : Cardinality(SessionsOf(sid)) <= 1

\* The lifecycle state of the i-th stored session.
StateOf(coll, i) == coll[i].profile.session_state

\* C15: END is terminal: once a ClimbingSession is in state END, no later
\* telemetry message changes its state.
C15_EndIsTerminal ==
    [][ \A i \in 1..Len(climbing_session_collection) :
          StateOf(climbing_session_collection, i) = "END"
          => StateOf(climbing_session_collection', i) = "END"
      ]_vars

\* The transitions of the documented lifecycle.
Lifecycle ==
    { << "START", "ACTIVE" >>, << "START", "END" >>, << "ACTIVE", "END" >>,
      << "START", "INCIDENT" >>, << "ACTIVE", "INCIDENT" >> }

\* C16: every change of a ClimbingSession's state is one of START to
\* ACTIVE, START or ACTIVE to END, START or ACTIVE to INCIDENT.
C16_OnlyLifecycleTransitions ==
    [][ \A i \in 1..Len(climbing_session_collection) :
          StateOf(climbing_session_collection', i)
              # StateOf(climbing_session_collection, i)
          => << StateOf(climbing_session_collection, i),
                StateOf(climbing_session_collection', i) >> \in Lifecycle
      ]_vars

(* -------------------------- frame properties -------------------------- *)

\* C17: a telemetry message without session_id or without session_state
\* creates or changes no ClimbingSession, SessionEvent, Device or Pairing
\* record and dispatches no alert.
C17_IncompleteTelemetryDiscarded ==
    [][ ( /\ TelemetryStep
          /\ \/ last_msg'.payload.session_id = Absent
             \/ last_msg'.payload.session_state = Absent )
        => UNCHANGED << storeVars, alerts, sent >>
      ]_vars

\* A START without a session id arrived from a paired device after a
\* complete START had created a session.
C17_Witness ==
    /\ last_msg.class = "telemetry"
    /\ last_msg.payload.session_state = "START"
    /\ last_msg.payload.session_id = Absent
    /\ UserFromDevice(last_msg.serial) # Absent
    /\ Len(climbing_session_collection) = 1
    /\ Len(session_event_collection) = 1

(* ------------------------- dispatch properties ------------------------ *)

\* The alert dispatcher returns a report in this step.
DispatchStep == Len(alerts') = Len(alerts) + 1

\* The names in the report's failed_contacts.
FailedNames(report) ==
    IF "failed_contacts" \in DOMAIN report
    THEN {report.failed_contacts[i] : i \in 1..Len(report.failed_contacts)}
    ELSE {}

FailedCount(report) ==
    IF "failed_contacts" \in DOMAIN report
    THEN Len(report.failed_contacts) ELSE 0

\* The alerts sent to the chat in this step.
AlertsSent(chat) == Sent(chat, "alert")' - Sent(chat, "alert")

\* C18: for a dispatch to a user with N >= 1 active contacts the report has
\* total_contacts = N and sent_count + the number of failed contacts = N; a
\* contact without a chat id is among the failed ones and every contact
\* with a chat id is still attempted; with at least one successful send the
\* status is success.
C18_ReportAccountsForEveryContact ==
    [][ \A user \in Users :
          ( DispatchStep /\ alerts'[Len(alerts')].user_id = user )
          => LET report == alerts'[Len(alerts')]
                 contacts == EmergencyContactsOf(user)
             IN  Len(contacts) >= 1
                 => /\ report.total_contacts = Len(contacts)
                    /\ report.sent_count + FailedCount(report)
                          = Len(contacts)
                    /\ \A i \in 1..Len(contacts) :
                          IF contacts[i].telegram_chat_id = Absent
                          THEN contacts[i].name \in FailedNames(report)
                          ELSE AlertsSent(contacts[i].telegram_chat_id) >= 1
                    /\ report.sent_count >= 1 => report.status = "success"
      ]_vars

\* A dispatch to three active contacts succeeded for one of them: one has
\* no chat id and the send to another failed.
C18_Witness ==
    /\ alerts # << >>
    /\ alerts[Len(alerts)].status = "success"
    /\ alerts[Len(alerts)].sent_count = 1
    /\ alerts[Len(alerts)].total_contacts = 3
    /\ FailedCount(alerts[Len(alerts)]) = 2
    /\ Sent("c1", "alert") = 1 /\ Sent("c2", "alert") = 1

\* The user's contacts with is_active = true and the given chat id.
ActiveContactsWithChat(user, chat) ==
    {i \in 1..Len(emergency_contact_collection) :
        /\ emergency_contact_collection[i].user_id = user
        /\ emergency_contact_collection[i].is_active
        /\ emergency_contact_collection[i].telegram_chat_id = chat}

\* C19: within one dispatch every active contact with a chat id gets
\* exactly one send attempt, also when the send fails, and the contacts
\* without a chat id and the soft-deleted contacts get none.
C19_OneAttemptPerContact ==
    [][ \A user \in Users :
          ( DispatchStep /\ alerts'[Len(alerts')].user_id = user )
          => /\ \A chat \in ChatIds :
                   AlertsSent(chat)
                      = Cardinality(ActiveContactsWithChat(user, chat))
             /\ BagCardinality(sent') - BagCardinality(sent)
                   = Cardinality(UNION {ActiveContactsWithChat(user, chat) :
                                           chat \in ChatIds})
      ]_vars

\* A dispatch whose send to c1 failed: the contact of c1 and the contact
\* without a chat id are reported failed, c1 was tried once, and the
\* soft-deleted contact with the same chat was not tried.
C19_Witness ==
    /\ alerts # << >>
    /\ FailedNames(alerts[Len(alerts)]) = {"n1", "n2"}
    /\ Sent("c1", "alert") = 1
    /\ Sent("c2", "alert") = 1
    /\ \E i \in 1..Len(emergency_contact_collection) :
          /\ ~emergency_contact_collection[i].is_active
          /\ emergency_contact_collection[i].telegram_chat_id = "c1"

\* The message of this step is an INCIDENT for an existing session from an
\* actively paired device.
IncidentMessageStep ==
    /\ TelemetryStep
    /\ ValidTelemetry(last_msg'.serial, last_msg'.payload)
    /\ last_msg'.payload.session_state = "INCIDENT"
    /\ FindSessionById(last_msg'.payload.session_id) # 0

\* The event of the message of this step is appended.
EventRecorded ==
    session_event_collection' =
        Append(session_event_collection,
               EventRecord(last_msg'.serial, last_msg'.payload.session_id,
                           last_msg'.payload))

\* C20: every INCIDENT message for an existing session from an actively
\* paired device invokes the alert dispatcher exactly once, with the session
\* set to INCIDENT and the message's SessionEvent recorded, whatever the
\* outcome of the sends; and the dispatcher is invoked by nothing else.
C20_IncidentDispatchesOnce ==
    [][ /\ IncidentMessageStep
           => /\ DispatchStep
              /\ StateAfter(last_msg'.payload.session_id) = "INCIDENT"
              /\ EventRecorded
        /\ alerts' # alerts
           => /\ IncidentMessageStep
              /\ DispatchStep
              /\ StateAfter(last_msg'.payload.session_id) = "INCIDENT"
              /\ EventRecorded
      ]_vars

(* --------------------------- router properties ------------------------- *)

MessageStep == last_msg'.n = last_msg.n + 1

\* The callback takes a payload that does not decode.
DecodeFailureStep ==
    \E topic \in Topics, body \in Bodies :
        /\ body.kind \in {"bytes", "text"}
        /\ on_message(topic, body, {})

\* The callback takes a START message of d1 that passes validation, right
\* after a message that was dropped.
StartAfterDropStep ==
    /\ last_msg.class \in {"undecoded", "unrouted"}
    /\ UserFromDevice("d1") # Absent
    /\ on_message(<< "climbing", "d1" >>,
                  [kind |-> "object",
                   data |-> [NoData EXCEPT !.session_state = "START",
                                           !.session_id = "s1",
                                           !.alt = JNum(0)]], {})

HandlerOf(topic) ==
    IF Len(topic) >= 3 /\ topic[3] = "status" THEN "status"
    ELSE IF Len(topic) >= 3 /\ topic[3] = "telegram" THEN "telegram"
    ELSE "telemetry"

\* C22: a decoded message on a topic of two or more segments is given to
\* the one handler its third segment names (telemetry when there is none
\* or another word), with the second segment as the device; the effects of
\* the step are those of that handler alone.
C22_RoutedByThirdSegment ==
    [][ \A topic \in Topics, body \in Bodies :
          \A failing \in SendOutcomes(body.data) :
            ( /\ MessageStep
              /\ body.kind = "object"
              /\ Len(topic) >= 2
              /\ on_message(topic, body, failing) )
            => /\ last_msg'.class = HandlerOf(topic)
               /\ last_msg'.serial = topic[2]
               /\ HandlerOf(topic) # "status"
                  => UNCHANGED << device_collection, last_sync_at >>
               /\ HandlerOf(topic) # "telegram" => UNCHANGED mqtt_thread
               /\ HandlerOf(topic) # "telemetry"
                  => UNCHANGED << sessionVars, alerts, sent >>
      ]_vars

\* A telemetry message was routed and created a session, then a status
\* message of d2 was routed to the status handler.
C22_Witness ==
    /\ last_msg.n = 2
    /\ last_msg.class = "status"
    /\ last_msg.serial = "d2"
    /\ last_sync_at["d2"] = 2
    /\ Len(session_event_collection) = 1

\* The status handler has taken a decoded object.
StatusStep ==
    /\ MessageStep
    /\ last_msg'.class = "status"
    /\ "status" \in DOMAIN last_msg'.payload

\* The step repeats the status message handled just before.
SameStatusAgain ==
    /\ last_msg.class = "status"
    /\ last_msg.serial = last_msg'.serial
    /\ last_msg.payload = last_msg'.payload

\* C23: a status message of a known device sets the device's status to the
\* reported one, active when the payload names none, and its last-sync time
\* to the time of the message, whatever the status was; a repeated message
\* leaves the status as the first one set it; a status message of an
\* unknown serial changes no record.
C23_StatusSetUnconditionally ==
    [][ StatusStep
        => \A s \in Serials :
              last_msg'.serial = s
              => IF device_collection[s] = Absent
                 THEN UNCHANGED storeVars
                 ELSE /\ device_collection' =
                            [device_collection EXCEPT ![s] =
                                IF last_msg'.payload.status = Absent
                                THEN "active"
                                ELSE last_msg'.payload.status]
                      /\ last_sync_at' =
                            [last_sync_at EXCEPT ![s] = last_msg'.n]
                      /\ last_sync_at'[s] > last_sync_at[s]
                      /\ SameStatusAgain
                         => UNCHANGED device_collection
      ]_vars

\* The device d1, active at first, has reported maintenance twice.
C23_Witness ==
    /\ last_msg.n = 2
    /\ last_msg.class = "status"
    /\ last_msg.serial = "d1"
    /\ device_collection["d1"] = "maintenance"
    /\ last_sync_at["d1"] = 2

\* The user of the first active pairing of a serial in a pairing collection.
OwnerIn(coll, serial) ==
    LET i == FindOne({j \in 1..Len(coll) :
                         /\ coll[j].device_serial = serial
                         /\ coll[j].pairing_status = "active"})
    IN  IF i = 0 THEN Absent ELSE coll[i].user_id

\* C24: a status message leaves every pairing record as it was, also when
\* it takes a device from inactive to active; a device without an owner
\* gets one in a register-device step only, and until then its telemetry
\* creates no session and no event.
C24_StatusLeavesPairings ==
    [][ /\ StatusStep => UNCHANGED device_pairing_collection
        /\ \A s \in Serials :
              ( /\ OwnerIn(device_pairing_collection, s) = Absent
                /\ ~RegisterStep )
              => OwnerIn(device_pairing_collection', s) = Absent
        /\ \A s \in Serials :
              ( /\ TelemetryStep
                /\ last_msg'.serial = s
                /\ OwnerIn(device_pairing_collection, s) = Absent )
              => UNCHANGED sessionVars
      ]_vars

\* The inactive device d2, unregistered by its user, was set to active by
\* its first status message and has no owner; the START it sent next was
\* discarded.
C24_Witness ==
    /\ last_msg.n = 2
    /\ last_msg.class = "telemetry"
    /\ last_msg.serial = "d2"
    /\ device_collection["d2"] = "active"
    /\ last_sync_at["d2"] = 1
    /\ OwnerIn(device_pairing_collection, "d2") = Absent
    /\ Len(device_pairing_collection) = 2
    /\ climbing_session_collection = << >>

(* ------------------------ status-check properties ---------------------- *)

\* The command of a chat cannot be resolved to a device: no contact has the
\* chat, or the contact names no user or a user that does not exist, or the
\* user has no active pairing with a device whose status is active.
Unresolvable(chat) ==
    LET c == FindOne({i \in 1..Len(emergency_contact_collection) :
                 emergency_contact_collection[i].telegram_chat_id = chat})
        user == emergency_contact_collection[c].user_id
    IN  \/ c = 0
        \/ user = Absent
        \/ user \notin Users
        \/ ~ \E i \in 1..Len(device_pairing_collection) :
                /\ device_pairing_collection[i].user_id = user
                /\ device_pairing_collection[i].pairing_status = "active"
                /\ device_collection[
                      device_pairing_collection[i].device_serial] = "active"

ResolutionErrors ==
    {"not_registered", "no_user_id", "user_not_found", "no_active_device"}

\* C25: a /check_status command that cannot be resolved sends the requester
\* exactly one message, an error, publishes nothing to the device, stores no
\* pending request and starts no watcher.
C25_UnresolvableCommandRejected ==
    [][ \A chat \in ChatIds \cup {UnknownChat}, result \in PublishResults :
          ( /\ Unresolvable(chat)
            /\ handle_check_status(chat, result) )
          => /\ \E kind \in ResolutionErrors :
                   sent' = sent (+) Send(chat, kind)
             /\ UNCHANGED << published, pending_status_checks, watchers >>
             /\ poller'.pc = "idle"
      ]_vars

\* The chat of a contact whose user does not exist was told so: that is
\* the only message, nothing was published or registered, and the polling
\* thread is ready for the next command.
C25_Witness ==
    /\ Sent("c2", "user_not_found") = 1
    /\ BagCardinality(sent) = 1
    /\ poller.n = 1
    /\ poller.pc = "idle"
    /\ published = << >>
    /\ pending_status_checks = << >>
    /\ DOMAIN watchers = {}

\* The replies a chat has been sent: status replies and timeout messages.
Replies(chat) ==
    Sent(chat, "status_reply") + Sent(chat, "device_unreachable")
        + Sent(chat, "no_active_session")

RequestKeys == {RequestKey(chat, user) : chat \in ChatIds, user \in Users}

C27_AtMostOneLoop == Cardinality(RunningLoops) <= 1

(* -------------------------- contact properties ------------------------- *)

\* The names of the contacts on record.
ContactNames(coll) == {coll[i].name : i \in 1..Len(coll)}

\* The number of active contacts of a user that have the chat.
ActiveWithChat(coll, user, chat) ==
    Cardinality({i \in 1..Len(coll) :
                    /\ coll[i].user_id = user
                    /\ coll[i].is_active
                    /\ coll[i].telegram_chat_id = chat})

\* C28: a soft delete keeps the record, with its flag set to false and its
\* other fields as they were, and leaves the other records alone; a
\* dispatch sends to the active contacts of the user only, so none goes to
\* a chat whose contacts are all soft-deleted; a record disappears in a
\* hard-delete step only.
C28_SoftDeletedContactKept ==
    [][ /\ \A i \in 1..Len(emergency_contact_collection) :
              ( \/ delete_emergency_contact(i)
                \/ auth_delete_emergency_contact(
                      emergency_contact_collection[i].user_id, i) )
              => /\ Len(emergency_contact_collection') =
                       Len(emergency_contact_collection)
                 /\ emergency_contact_collection' =
                       [emergency_contact_collection EXCEPT
                           ![i].is_active = FALSE]
        /\ \A user \in Users :
              ( DispatchStep /\ alerts'[Len(alerts')].user_id = user )
              => \A chat \in ChatIds :
                    AlertsSent(chat) =
                       ActiveWithChat(emergency_contact_collection, user,
                                      chat)
        /\ ContactNames(emergency_contact_collection')
              # ContactNames(emergency_contact_collection)
           => http_response'.op = "hard_delete_contact"
      ]_vars

\* The contact n1 of u1 was soft-deleted and is still on record; the
\* incident dispatched afterwards sent one alert, to the chat of n2, and
\* none to the chat of n1.
C28_Witness ==
    /\ Len(emergency_contact_collection) = 3
    /\ emergency_contact_collection[1].name = "n1"
    /\ ~emergency_contact_collection[1].is_active
    /\ emergency_contact_collection[2].is_active
    /\ Len(alerts) = 1
    /\ Sent("c1", "alert") = 0
    /\ Sent("c2", "alert") = 1

(* ------------------------- append-only properties ---------------------- *)

\* The number of events of a session id in an event collection.
EventCount(events, session_id) ==
    Cardinality({i \in 1..Len(events) : events[i].session_id = session_id})

\* C29: in every step of the transport callback each SessionEvent on
\* record stays as it is and in its place, each ClimbingSession on record
\* stays on record for its session id, user and device, and so the number
\* of events of a session id does not go down.
C29_AppendOnly ==
    [][ /\ Len(session_event_collection') >= Len(session_event_collection)
        /\ \A i \in 1..Len(session_event_collection) :
              session_event_collection'[i] = session_event_collection[i]
        /\ Len(climbing_session_collection')
              >= Len(climbing_session_collection)
        /\ \A i \in 1..Len(climbing_session_collection) :
              /\ climbing_session_collection'[i].data.session_id =
                    climbing_session_collection[i].data.session_id
              /\ climbing_session_collection'[i].data.user_id =
                    climbing_session_collection[i].data.user_id
              /\ climbing_session_collection'[i].data.device_serial =
                    climbing_session_collection[i].data.device_serial
        /\ \A session_id \in SessionIds :
              EventCount(session_event_collection', session_id)
                 >= EventCount(session_event_collection, session_id)
      ]_vars

\* The session s1 has ended: its record was updated by the END message and
\* both of its events are on record.
C29_Witness ==
    /\ Len(climbing_session_collection) = 1
    /\ climbing_session_collection[1].profile.session_state = "END"
    /\ EventCount(session_event_collection, "s1") = 2
    /\ last_msg.class = "telemetry"

(* --------------------------- factory properties ------------------------ *)

\* The value is a string of the allowed set of the type.
Allowed(dr_type, v) ==
    /\ v.kind = "str"
    /\ dr_type = "climbing_session"
       => v.value \in {"START", "ACTIVE", "END", "INCIDENT"}
    /\ dr_type = "device_pairing"
       => v.value \in {"active", "unpaired", "suspended", "expired"}
    /\ dr_type = "device"
       => v.value \in {"active", "inactive", "maintenance", "retired"}

\* C30: the enumerated field of a record that create_dr or update_dr
\* returns is a value of the type's allowed set, or the record has no such
\* field; a call that carries another value raises and returns no record.
C30_EnumFieldsValidated ==
    /\ dr_call.result = "returned"
       => \/ dr_call.returned.kind = "unset"
          \/ Allowed(dr_call.dr_type, dr_call.returned)
    /\ ( /\ dr_call.op # Absent
         /\ dr_call.value.kind # "unset"
         /\ ~Allowed(dr_call.dr_type, dr_call.value) )
       => /\ dr_call.result = "raises"
          /\ dr_call.returned = Unset

\* A device created as inactive was updated to maintenance, and the update
\* to a status outside the set was then refused.
C30_Witness ==
    /\ dr_call.n = 3
    /\ dr_call.op = "update_dr"
    /\ dr_call.dr_type = "device"
    /\ dr_call.value = Str("broken")
    /\ dr_call.result = "raises"
    /\ dr_call.stored = Str("maintenance")

(* ----------------------- whole-record properties ---------------------- *)

\* C31: update_dr does not modify the record it is given: after a call
\* that returns, the metadata.updated_at of the given record is what it was
\* before the call and that of the returned record is strictly later.
C31_GivenRecordUntouched ==
    (dr_objects.op = "update_dr" /\ dr_objects.result = "returned")
    => /\ dr_objects.heap[dr_objects.dr.metadata].updated_at
             = dr_objects.before.metadata.updated_at
       /\ dr_objects.heap[dr_objects.updated_dr.metadata].updated_at
             > dr_objects.before.metadata.updated_at

\* The update returned a record.
UpdateReturned ==
    dr_objects.op = "update_dr" /\ dr_objects.result = "returned"

\* The profile and data keys of a record.
SectionKeys ==
    {<< "profile", k >> : k \in DOMAIN NoProfile}
    \cup {<< "data", k >> : k \in DOMAIN NoSection}

\* The statement as given: a key the update does not name keeps its value,
\* a named key holds the update's value.
C32_UpdateIsMerge ==
    UpdateReturned
    => \A sk \in SectionKeys :
          LET named == dr_objects.updates[sk[1]][sk[2]]
          IN  dr_objects.updated_dr[sk[1]][sk[2]] =
                 IF named.kind = "unset"
                 THEN dr_objects.before[sk[1]][sk[2]]
                 ELSE named

\* The value of a named key in the returned record: a number for the float
\* field, whatever form the update gave it in; nothing for the key that
\* the schema does not declare; the update's value for the str fields.
Taken(sk, named) ==
    IF sk = << "data", "note" >> THEN Unset
    ELSE IF sk = << "data", "end_alt" >>
         THEN [kind |-> "number", value |-> named.value]
    ELSE named

\* C32: update_dr is a merge over the fields the schema declares: a key the
\* update does not name keeps its previous value in the returned record; a
\* named key holds the update's value converted to the declared type; a
\* named key that the schema does not declare is not in the returned
\* record.
C32_MergeOfDeclaredFields ==
    UpdateReturned
    => \A sk \in SectionKeys :
          LET named == dr_objects.updates[sk[1]][sk[2]]
          IN  dr_objects.updated_dr[sk[1]][sk[2]] =
                 IF named.kind = "unset"
                 THEN dr_objects.before[sk[1]][sk[2]]
                 ELSE Taken(sk, named)

\* A session created with user, end altitude 5 and state START got the end
\* altitude "7" and an undeclared note: the record returned has the user
\* and the state of before and the end altitude 7 as a number.
C32_Witness ==
    /\ UpdateReturned
    /\ dr_objects.before.data.user_id = Str("u1")
    /\ dr_objects.before.data.end_alt = Number
    /\ dr_objects.before.profile.session_state = Str("START")
    /\ dr_objects.updates.given = {"data"}
    /\ dr_objects.updates.data =
          [user_id |-> Unset, end_alt |-> Str("7"), note |-> Str("x")]
    /\ dr_objects.updated_dr.data =
          [user_id |-> Str("u1"), end_alt |-> [kind |-> "number", value |-> "7"],
           note |-> Unset]
    /\ dr_objects.updated_dr.profile.session_state = Str("START")

(* ------------------------ session/event coupling ----------------------- *)

\* The step changes a stored session: its state or its end fields.
SessionMutated ==
    \E i \in 1..Len(climbing_session_collection) :
        climbing_session_collection'[i] # climbing_session_collection[i]

\* C33: a telemetry message that changes a session's state or end fields
\* also records exactly one SessionEvent, the one of that message.
C33_MutationRecordsEvent ==
    [][ SessionMutated => EventRecorded ]_vars

(* -------------------------- session ownership -------------------------- *)

\* The step is an ACTIVE, END or INCIDENT message for a stored session that
\* comes from an actively paired device other than the one that started it.
ForeignDeviceStep ==
    /\ MessageStep
    /\ last_msg'.class = "telemetry"
    /\ last_msg'.payload.session_state \in {"ACTIVE", "END", "INCIDENT"}
    /\ last_msg'.payload.session_id # Absent
    /\ FindSessionById(last_msg'.payload.session_id) # 0
    /\ DeviceExists(last_msg'.serial)
    /\ UserFromDevice(last_msg'.serial) # Absent
    /\ climbing_session_collection[
           FindSessionById(last_msg'.payload.session_id)].data.device_serial
          # last_msg'.serial

\* C34: an ACTIVE, END or INCIDENT message from another actively paired
\* device that carries the id of a stored session leaves the session as it
\* is.
C34_OnlyStartingDeviceMutates ==
    [][ ForeignDeviceStep
        => climbing_session_collection' = climbing_session_collection ]_vars

\* The user stored as the owner of the session when it was started.
SessionOwner(session_id) ==
    climbing_session_collection[FindSessionById(session_id)].data.user_id

\* C35: the alert of an INCIDENT on a session is dispatched for the user
\* stored as the session's owner at START and sent to that user's active
\* contacts, whoever the reporting device is paired to by then.
C35_AlertGoesToSessionOwner ==
    [][ DispatchStep
        => LET report == alerts'[Len(alerts')]
               owner == SessionOwner(report.session_id)
           IN  /\ report.user_id = owner
               /\ sent' = sent (+) AlertAttempts(EmergencyContactsOf(owner))
      ]_vars

(* --------------------------- repeated requests ------------------------- *)

\* C36: a timeout watcher removes and answers the pending entry of its own
\* request only: the entry it deletes is the one its request registered.
C36_WatcherRemovesOwnEntry ==
    [][ \A r \in DOMAIN watchers :
           ( /\ watchers[r].pc = "expired"
             /\ watchers'[r].pc = "replied" )
           => pending_status_checks[
                  RequestKey(watchers[r].chat_id, watchers[r].user_id)]
                  .timestamp = r
      ]_vars

(* ------------------------ soft-deleted requesters ---------------------- *)

\* The chat belongs to stored contacts, all of them soft-deleted.
OnlySoftDeleted(chat) ==
    /\ \E i \in 1..Len(emergency_contact_collection) :
          emergency_contact_collection[i].telegram_chat_id = chat
    /\ \A i \in 1..Len(emergency_contact_collection) :
          emergency_contact_collection[i].telegram_chat_id = chat
          => ~emergency_contact_collection[i].is_active

\* C37: a check-status command from a chat whose contact records are all
\* soft-deleted is answered like one from an unregistered chat: the
\* not-registered message is sent and no status request is published.
C37_SoftDeletedRequesterRejected ==
    [][ \A chat \in ChatIds, result \in PublishResults :
           ( /\ OnlySoftDeleted(chat)
             /\ handle_check_status(chat, result) )
           => /\ published' = published
              /\ sent' = sent (+) Send(chat, "not_registered")
      ]_vars

(* ---------------------------- several devices -------------------------- *)

\* The devices with status active that the user has an active pairing to.
ActiveDevicesOf(user) ==
    {device_pairing_collection[i].device_serial :
        i \in {j \in 1..Len(device_pairing_collection) :
                 /\ device_pairing_collection[j].user_id = user
                 /\ device_pairing_collection[j].pairing_status = "active"
                 /\ device_collection[
                        device_pairing_collection[j].device_serial] = "active"}}

\* C38: when the user of the requesting contact has an active pairing to a
\* device with status active, the command publishes a status request to
\* such a device, also when other paired devices of the user are inactive.
C38_RequestReachesActiveDevice ==
    [][ \A chat \in ChatIds, result \in PublishResults :
           LET c == FindEmergencyContactByChatId(chat)
           IN  ( /\ c # 0
                 /\ ActiveDevicesOf(emergency_contact_collection[c].user_id)
                       # {}
                 /\ connected
                 /\ handle_check_status(chat, result) )
               => /\ Len(published') = Len(published) + 1
                  /\ published'[Len(published')].serial \in
                        ActiveDevicesOf(emergency_contact_collection[c].user_id)
      ]_vars

(* ----------------------------- handler frames -------------------------- *)

\* C39: a telemetry message creates or changes no Device and no Pairing
\* record, a status message no ClimbingSession and no SessionEvent, and a
\* status-response message, up to the end of its reply, no stored record at
\* all.
C39_HandlersKeepToTheirRecords ==
    [][ /\ (MessageStep /\ last_msg'.class = "telemetry")
           => UNCHANGED << device_collection, last_sync_at,
                           device_pairing_collection >>
        /\ (MessageStep /\ last_msg'.class = "status")
           => UNCHANGED sessionVars
        /\ ( \/ MessageStep /\ last_msg'.class = "telegram"
             \/ mqtt_thread.pc = "remove" )
           => UNCHANGED storeVars
      ]_vars

\* A START of d1 has stored a session and its event, and the response of a
\* device to a status request is being answered.
C39_Witness ==
    /\ last_msg.n = 2
    /\ last_msg.class = "telegram"
    /\ mqtt_thread.pc = "remove"
    /\ Len(climbing_session_collection) = 1
    /\ Len(session_event_collection) = 1

====
